---- MODULE Spec2Model ----
(***************************************************************************)
(* VirtualC64 floppy drive (Drive.cpp): the debounced disk change state    *)
(* machine (insertDisk / ejectDisk / vsyncHandler) and the dual-clock      *)
(* execution loop (execute / executeUF4 / updateByteReady), the stepper    *)
(* (moveHeadUp / moveHeadDown), and the GCR tables of the disk (Disk.h).   *)
(***************************************************************************)
EXTENDS Integers, Naturals, Sequences, FiniteSets, TLC

(***************************************************************************)
(* Bounds of the model                                                     *)
(***************************************************************************)

\* vsyncHandler keeps decrementing diskChangeCounter below zero while no
\* change is scheduled; ticks are cut off when the counter reaches this depth
MaxIdleTicks == 36

\* Number of bits of a halftrack of default length (a ring)
TrackBits == 3

\* Number of bits of the long halftracks of a disk with native lengths
LongTrackBits == 22

\* No more than this many nibbles are encoded in a row
MaxNibbles == 3

\* setOption is called no more than this many times
MaxOptionCalls == 2

\* A time slice is split after no more than this many CPU cycles
MaxSplitCycles == 1

\* execute is no longer called once elapsedTime has reached this many
\* CPU cycles
MaxCycles == 3

\* The same limit for the runs in which the firmware formats a track
MaxFormatCycles == 48

\* The same limit for the runs in which the firmware reads a track
MaxReadCycles == 37

\* The head is stepped no more than this many times
MaxHeadSteps == 2

\* Bits of a halftrack of default length of a disk outside the drive
ImageBits == 11

\* Halftracks of a disk outside the drive
MaxImageHalftrack == 3

\* Calls of the bit functions of a disk outside the drive in one run
MaxAccesses == 1

\* Bytes of a tape, and the largest byte on it
MaxTapeSize == 4

MaxTapeByte == 2

\* Calls of suspend() that a run leaves without their resume()
MaxSuspended == 3

\* Directory slots of a T64 archive at hand
MaxSlots == 2

\* Files of a filesystem at hand
MaxFiles == 2

\* Bytes of a block of a filesystem that is encoded to a disk
BlockBytes == 7

(***************************************************************************)
(* Program constants                                                       *)
(***************************************************************************)

\* Delay between two insertion status transitions, in vsync ticks
DebounceDelay == 17

\* Mutation of InitiateDelay: a disk change begins after two more delays
InitiateDelaySlow == 2 * DebounceDelay + 1

\* Value insertDisk and ejectDisk load into diskChangeCounter
InitiateDelay == 1

\* Duration of a drive CPU cycle in 1/10 nano seconds
ClockPeriod == 10000

\* The halftrack the head is over after a reset
ResetHalftrack == 41

\* The halftrack beyond which the head does not move
HighestHalftrack == 84

\* Number of significant bits of a float
MantissaBits == 24

DISK_FULLY_EJECTED == "DISK_FULLY_EJECTED"
DISK_PARTIALLY_INSERTED == "DISK_PARTIALLY_INSERTED"
DISK_FULLY_INSERTED == "DISK_FULLY_INSERTED"
DISK_PARTIALLY_EJECTED == "DISK_PARTIALLY_EJECTED"

InsertionStatus ==
    { DISK_FULLY_EJECTED, DISK_PARTIALLY_INSERTED,
      DISK_FULLY_INSERTED, DISK_PARTIALLY_EJECTED }

MSG_DISK_INSERT == "MSG_DISK_INSERT"
MSG_DISK_EJECT == "MSG_DISK_EJECT"

\* The null pointer
nullptr == "nullptr"

\* The Disk objects a caller can hand to insertDisk
Disks == { "A", "B" }

Halftracks == 1 .. HighestHalftrack

\* The positions of a halftrack of default length
HeadPositions == 0 .. (TrackBits - 1)

(***************************************************************************)
(* Disk                                                                    *)
(***************************************************************************)

\* A disk is a record: data is the set of the << halftrack, position >>
\* pairs whose bit is 1, length names the table of its halftrack lengths.

\* Disk::clearDisk: a factory-new disk, all data erased, marks removed,
\* every halftrack of default length
ClearedDisk ==
    [ data |-> { },
      length |-> "default",
      writeProtected |-> FALSE,
      modified |-> FALSE ]

\* The serialized content (Disk::save) of the Disk objects of Disks, both
\* with data on the halftrack under the head after a reset: A is a sector
\* image encoded with default lengths, B a write protected halftrack image
\* with native lengths
DiskContent(d) ==
    IF d = "A"
    THEN [ data |-> { << ResetHalftrack, p >> : p \in HeadPositions },
           length |-> "default",
           writeProtected |-> FALSE,
           modified |-> FALSE ]
    ELSE [ data |-> { << ResetHalftrack, p >> :
                         p \in { q \in HeadPositions : q % 2 = 0 } },
           length |-> "native",
           writeProtected |-> TRUE,
           modified |-> FALSE ]

\* The halftrack lengths of a disk with native lengths: the halftracks below
\* the reset position are long
NativeLength(ht) ==
    IF ht < ResetHalftrack THEN LongTrackBits ELSE TrackBits

\* The halftracks and the tracks of a disk outside the drive; track t is
\* halftrack 2 * t - 1
ImageHalftracks == 1 .. MaxImageHalftrack

ImageTracks == 1 .. ((MaxImageHalftrack + 1) \div 2)

\* Bytes of the array that backs a halftrack: the longest halftrack and
\* some room behind it
ImageCapacity == (ImageBits + 7) \div 8 + 1

\* Bits of a halftrack of native length: whole bytes
ImageNativeBits == 8 * ((ImageBits + 7) \div 8)

\* A disk outside the drive after Disk::clearDisk: zero bytes, default
\* lengths. Byte i of the array is element i + 1 of the sequence.
ClearedImage ==
    [ data |-> [ ht \in ImageHalftracks |->
                    [ i \in 1 .. ImageCapacity |-> 0 ] ],
      length |-> [ ht \in ImageHalftracks |-> ImageBits ] ]

(***************************************************************************)
(* State                                                                   *)
(***************************************************************************)

VARIABLES
    insertionStatus,    \* Drive::insertionStatus
    diskToInsert,       \* Drive::diskToInsert, a Disk pointer or nullptr
    diskChangeCounter,  \* Drive::diskChangeCounter
    disk,               \* Drive::disk, the live surface with its marks
    msgs,               \* messages put into the queue by the latest step
    elapsedTime,        \* Drive::elapsedTime
    nextClock,          \* Drive::nextClock
    nextCarry,          \* Drive::nextCarry
    zone,               \* Drive::zone
    spinning,           \* Drive::spinning
    via2,               \* what the drive reads from VIA2: CA2, CB2, port A
    counterUF4,         \* Drive::counterUF4 (the four bits the code reads)
    carryCounter,       \* Drive::carryCounter (modulo 4, as the code reads it)
    byteReadyCounter,   \* Drive::byteReadyCounter
    byteReady,          \* Drive::byteReady
    sync,               \* Drive::sync
    readShiftreg,       \* Drive::readShiftreg (the ten bits the code reads)
    writeShiftreg,      \* Drive::writeShiftreg
    offset,             \* Drive::offset, the head position in the halftrack
    halftrack,          \* Drive::halftrack
    gcrValue,           \* the byte handed to the GCR functions of the disk
    ca1,                \* via2.CA1action calls made by the latest step
    pc,                 \* "idle", or "loop" inside Drive::execute
    lastCall,           \* history: the latest call of insertDisk, ejectDisk
                        \* or execute, with the state it was made in
    ticksSince,         \* history: vsync ticks since a lastCall that began
                        \* a disk change
    ejectMsgsSince,     \* history: MSG_DISK_EJECT messages in these ticks
    ticksInStatus,      \* history: vsync ticks since insertionStatus changed
    accepted,           \* history: the insertDisk that staged the disk
                        \* now waiting, the status it found and the
                        \* MSG_DISK_EJECT messages since
    lastCA1,            \* history: the value of the latest CA1action call,
                        \* as a sequence that is empty before the first
    loaded,             \* history: the bit cell the read/write logic is
                        \* in, and the latest load of the write shift
                        \* register and the bit cells since
    trail,              \* history: the latest head steps, each with the
                        \* position it started from
    headSteps,          \* history: the number of head steps so far
    gcrCalls,           \* history: the calls of the GCR functions
    image,              \* a Disk outside the drive: Disk::data as bytes and
                        \* Disk::length in bits, per halftrack
    access,             \* history: the calls of the bit functions of image
    suspendCounter,     \* nesting depth of suspend() over resume()
    config,             \* Drive::config: connected, switchedOn
    active,             \* Drive::active
    configCall,         \* history: what the latest setConfigItem call
                        \* asked for, and what it returned
    tape,               \* Datasette: size, type, data, head, playKey,
                        \* motor and the edges to come; history: the
                        \* functions whose assertion head < size failed
    t64,                \* T64File: data and size, what repair or readByte
                        \* returned, and the filesystem it was made from
    exported,           \* the file MyDocument.export wrote, its advisory
                        \* and its error
    volume,             \* a filesystem on its way to the image and back:
                        \* its files, its blocks and the blocks decoded
    monitor,            \* Monitor::config, and the latest setOption call
                        \* with its outcome
    split               \* history: a time slice executed in two parts and
                        \* again in one, with the ticks of both runs

swapVars == << insertionStatus, diskToInsert, diskChangeCounter >>

clockVars == << elapsedTime, nextClock, nextCarry >>

cpuVars == << zone, spinning, via2 >>

uf4Vars ==
    << counterUF4, carryCounter, byteReadyCounter, sync,
       readShiftreg, writeShiftreg, offset >>

histVars ==
    << lastCall, ticksSince, ejectMsgsSince, ticksInStatus, accepted >>

logVars == << lastCA1, loaded >>

codecVars == << gcrValue, gcrCalls >>

imageVars == << image, access >>

configVars == << config, active, configCall >>

\* The state outside the drive mechanics, but for the suspend counter
hostVars ==
    << imageVars, configVars, tape, t64, exported, volume, monitor >>

vars ==
    << insertionStatus, diskToInsert, diskChangeCounter, disk, msgs,
       elapsedTime, nextClock, nextCarry, zone, spinning, via2,
       counterUF4, carryCounter, byteReadyCounter, byteReady, sync,
       readShiftreg, writeShiftreg, offset, halftrack, gcrValue, ca1, pc,
       lastCall, ticksSince, ejectMsgsSince, ticksInStatus, accepted,
       lastCA1, loaded, trail, headSteps, gcrCalls,
       image, access, suspendCounter, config, active, configCall, tape, t64,
       exported,
       volume, monitor, split >>

\* A truth value as a number
BitOf(bit) == IF bit THEN 1 ELSE 0

\* Saturating increment of a history counter
Bump(n, cap) == IF n < cap THEN n + 1 ELSE cap

\* Largest tick count the history counters distinguish
TickCap == 3 * DebounceDelay + 2

NoCall == [ op |-> "none", arg |-> nullptr,
            status |-> DISK_FULLY_EJECTED, staged |-> nullptr ]

\* The call found the drive at rest and began an insertion or an ejection
Began(call) ==
    /\ call.staged = nullptr
    /\ \/ call.op = "insertDisk" /\ call.status = DISK_FULLY_EJECTED
       \/ call.op = "ejectDisk" /\ call.status = DISK_FULLY_INSERTED

\* No insertDisk has staged a disk
NoneAccepted ==
    [ disk |-> nullptr, status |-> DISK_FULLY_EJECTED, ejects |-> 0 ]

\* No load of the write shift register has been seen
NoLoad ==
    [ byte |-> 0, shifts |-> 0, writing |-> FALSE, pos |-> 0, loads |-> 0,
      cell |-> [ read |-> FALSE, bit |-> 0, zeros |-> 0 ] ]

\* The step neither moves the head nor calls a GCR function
headAtRest ==
    /\ trail' = << >>
    /\ UNCHANGED << halftrack, headSteps, codecVars, hostVars >>

\* What every step outside the drive leaves alone in the drive
mechanicsAtRest ==
    /\ msgs' = << >>
    /\ ca1' = << >>
    /\ trail' = << >>
    /\ UNCHANGED << swapVars, disk, clockVars, cpuVars, uf4Vars, halftrack,
                    headSteps, byteReady, pc, histVars, logVars, codecVars >>

\* The datasette without a tape
NoTape ==
    [ size |-> 0, type |-> 0, data |-> << >>, durationInCycles |-> 0,
      head |-> 0, headInCycles |-> 0, playKey |-> FALSE, motor |-> FALSE,
      nextRisingEdge |-> 0, nextFallingEdge |-> 0, failed |-> { } ]

\* No archive has been read
NoArchive ==
    [ data |-> << >>, size |-> 0, ret |-> << >>, original |-> << >>,
      fs |-> << >> ]

\* No export has been asked for
NothingExported ==
    [ type |-> "none", fs |-> << >>, written |-> << >>, advisory |-> << >>,
      error |-> "none" ]

\* No filesystem is at hand
NoVolume ==
    [ files |-> << >>, blocks |-> << >>, stage |-> "none",
      alignTracks |-> TRUE, start |-> << >>, decoded |-> << >>,
      errors |-> 0 ]

\* No time slice is being compared
NoSplit ==
    [ phase |-> "off", calls |-> << >>, ticks |-> << >>, writes |-> << >>,
      start |-> << >>, first |-> << >> ]

\* The monitor after construction: brightness, contrast and saturation
\* have their defaults
MonitorAtStart ==
    [ config |->
          [ f \in { "palette", "brightness", "contrast", "saturation",
                    "hCenter", "vCenter", "hZoom", "vZoom", "upscaler",
                    "blur", "blurRadius", "bloom", "bloomRadius",
                    "bloomBrightness", "bloomWeight", "dotmask",
                    "dotMaskBrightness", "scanlines", "scanlineBrightness",
                    "scanlineWeight", "disalignment", "disalignmentH",
                    "disalignmentV" } |->
              IF f \in { "brightness", "saturation" } THEN 50
              ELSE IF f = "contrast" THEN 100
              ELSE 0 ],
      before |-> << >>,
      calls |-> << >> ]

\* A cleared disk outside the drive that no bit function has been called on
imageAtStart == image = ClearedImage /\ access = << >>

\* setConfigItem has not been called
NoConfigCall == [ asked |-> "nothing", ret |-> FALSE ]

\* Drive 8 after Drive::resetConfig with the drive ROM installed
configAtStart ==
    /\ config = [ connected |-> TRUE, switchedOn |-> TRUE ]
    /\ active = TRUE
    /\ configCall = NoConfigCall

\* The emulator, the datasette and the documents before any operation
hostAtStart ==
    /\ imageAtStart
    /\ configAtStart
    /\ suspendCounter = 0
    /\ tape = NoTape
    /\ t64 = NoArchive
    /\ exported = NothingExported
    /\ volume = NoVolume
    /\ monitor = MonitorAtStart
    /\ split = NoSplit

\* The state of the drive after a reset, but for the disk in it, the
\* position of the head and the byte at hand
driveAtReset(status, surface, ht, pos, value) ==
    /\ insertionStatus = status
    /\ diskToInsert = nullptr
    /\ diskChangeCounter = 0
    /\ disk = surface
    /\ msgs = << >>
    /\ elapsedTime = 0
    /\ nextClock = 0
    /\ nextCarry = 0
    /\ zone = 0
    /\ spinning = FALSE
    /\ via2 = [ ca2 |-> FALSE, cb2 |-> TRUE, pa |-> 0 ]
    /\ counterUF4 = 0
    /\ carryCounter = 0
    /\ byteReadyCounter = 0
    /\ byteReady = FALSE
    /\ sync = FALSE
    /\ readShiftreg = 0
    /\ writeShiftreg = 0
    /\ offset = pos
    /\ halftrack = ht
    /\ gcrValue = value
    /\ ca1 = << >>
    /\ pc = "idle"
    /\ lastCall = NoCall
    /\ ticksSince = 0
    /\ ejectMsgsSince = 0
    /\ ticksInStatus = 0
    /\ accepted = NoneAccepted
    /\ lastCA1 = << >>
    /\ loaded = NoLoad
    /\ trail = << >>
    /\ headSteps = 0
    /\ gcrCalls = << >>

\* The state after construction, but for the disk in the drive, the
\* position of the head and the byte at hand
InitWith(status, surface, ht, pos, value) ==
    /\ driveAtReset(status, surface, ht, pos, value)
    /\ hostAtStart

\* Drive::_initialize and Drive::_reset
Init == InitWith(DISK_FULLY_EJECTED, ClearedDisk, ResetHalftrack, 0, 0)

(***************************************************************************)
(* Disk change procedure                                                   *)
(***************************************************************************)

\* Mutation of insertInitiates: the test for a staged disk is missing
insertInitiatesAlways == TRUE

\* The condition under which Drive::insertDisk initiates a disk change
insertInitiates == diskToInsert = nullptr

\* Mutation of ejectInitiates: the wrong insertion status is tested
ejectInitiatesWhenEjected ==
    insertionStatus = DISK_FULLY_EJECTED /\ diskToInsert = nullptr

\* Mutation of ejectInitiates: the test of the insertion status is missing
ejectInitiatesAnywhere == diskToInsert = nullptr

\* The condition under which Drive::ejectDisk initiates a disk change
ejectInitiates ==
    insertionStatus = DISK_FULLY_INSERTED /\ diskToInsert = nullptr

\* suspend() and resume() of the emulator thread, as they act on the
\* nesting depth
suspend(depth) == depth + 1

resume(depth) == depth - 1

\* Mutation of insertDiskBracket: an ignored call returns at once
insertDiskBracketReturnsEarly(depth) ==
    IF insertInitiates THEN resume(suspend(depth)) ELSE suspend(depth)

\* The suspend() and the resume() of Drive::insertDisk
insertDiskBracket(depth) == resume(suspend(depth))

\* The suspend() and the resume() of Drive::ejectDisk
ejectDiskBracket(depth) == resume(suspend(depth))

\* Drive::insertDisk(Disk *otherDisk)
insertDisk(otherDisk) ==
    /\ pc = "idle"
    /\ suspendCounter' = insertDiskBracket(suspendCounter)
    /\ IF insertInitiates
       THEN /\ diskToInsert' = otherDisk
            /\ diskChangeCounter' = InitiateDelay
            /\ accepted' = [ disk |-> otherDisk, status |-> insertionStatus,
                             ejects |-> 0 ]
       ELSE UNCHANGED << diskToInsert, diskChangeCounter, accepted >>
    /\ msgs' = << >>
    /\ ca1' = << >>
    /\ lastCall' = [ op |-> "insertDisk", arg |-> otherDisk,
                     status |-> insertionStatus, staged |-> diskToInsert ]
    /\ ticksSince' = 0
    /\ ejectMsgsSince' = 0
    /\ headAtRest
    /\ UNCHANGED split
    /\ UNCHANGED << insertionStatus, disk, clockVars, cpuVars, uf4Vars,
                    byteReady, pc, ticksInStatus, logVars >>

\* Drive::ejectDisk
ejectDisk ==
    /\ pc = "idle"
    /\ suspendCounter' = ejectDiskBracket(suspendCounter)
    /\ UNCHANGED accepted
    /\ IF ejectInitiates
       THEN diskChangeCounter' = InitiateDelay
       ELSE UNCHANGED diskChangeCounter
    /\ msgs' = << >>
    /\ ca1' = << >>
    /\ lastCall' = [ op |-> "ejectDisk", arg |-> nullptr,
                     status |-> insertionStatus, staged |-> diskToInsert ]
    /\ ticksSince' = 0
    /\ ejectMsgsSince' = 0
    /\ headAtRest
    /\ UNCHANGED split
    /\ UNCHANGED << insertionStatus, diskToInsert, disk, clockVars, cpuVars,
                    uf4Vars, byteReady, pc, ticksInStatus, logVars >>

\* Mutation of newStatus: the disk is pushed in and pulled out in one go
newStatusAtOnce(status) ==
    CASE status = DISK_FULLY_INSERTED -> DISK_FULLY_EJECTED
      [] status = DISK_PARTIALLY_EJECTED -> DISK_FULLY_EJECTED
      [] status = DISK_FULLY_EJECTED -> DISK_FULLY_INSERTED
      [] status = DISK_PARTIALLY_INSERTED -> DISK_FULLY_INSERTED

\* The insertion status each case of the switch of Drive::vsyncHandler
\* assigns
newStatus(status) ==
    CASE status = DISK_FULLY_INSERTED -> DISK_PARTIALLY_EJECTED
      [] status = DISK_PARTIALLY_EJECTED -> DISK_FULLY_EJECTED
      [] status = DISK_FULLY_EJECTED -> DISK_PARTIALLY_INSERTED
      [] status = DISK_PARTIALLY_INSERTED -> DISK_FULLY_INSERTED

\* Mutation of nothingStaged: the drive pushes a disk in whether or not
\* one is waiting
nothingStagedNever == FALSE

\* The condition under which the case DISK_FULLY_EJECTED of
\* Drive::vsyncHandler returns at once
nothingStaged == diskToInsert = nullptr

\* Mutation of countedDown: the counter is tested but not decremented
countedDownNot(counter) == counter

\* The disk change counter after the decrement of Drive::vsyncHandler
countedDown(counter) == counter - 1

\* The switch of Drive::vsyncHandler, taken when the counter has reached zero
vsyncTransition ==
    CASE insertionStatus = DISK_FULLY_INSERTED ->
            /\ insertionStatus' = newStatus(insertionStatus)
            /\ disk' = ClearedDisk
            /\ diskChangeCounter' = DebounceDelay
            /\ msgs' = << >>
            /\ UNCHANGED diskToInsert
      [] insertionStatus = DISK_PARTIALLY_EJECTED ->
            /\ insertionStatus' = newStatus(insertionStatus)
            /\ msgs' = << MSG_DISK_EJECT >>
            /\ diskChangeCounter' = DebounceDelay
            /\ UNCHANGED << diskToInsert, disk >>
      [] insertionStatus = DISK_FULLY_EJECTED ->
            IF nothingStaged
            THEN /\ diskChangeCounter' = 0
                 /\ msgs' = << >>
                 /\ UNCHANGED << insertionStatus, diskToInsert, disk >>
            ELSE /\ insertionStatus' = newStatus(insertionStatus)
                 /\ diskChangeCounter' = DebounceDelay
                 /\ msgs' = << >>
                 /\ UNCHANGED << diskToInsert, disk >>
      [] insertionStatus = DISK_PARTIALLY_INSERTED ->
            /\ insertionStatus' = newStatus(insertionStatus)
            /\ IF diskToInsert # nullptr
               THEN disk' = DiskContent(diskToInsert)
               ELSE \* a null pointer is dereferenced: any content may load
                    disk' \in { ClearedDisk }
                               \cup { DiskContent(d) : d \in Disks }
            /\ diskToInsert' = nullptr
            /\ diskChangeCounter' = 0
            /\ msgs' = << MSG_DISK_INSERT >>

\* Drive::vsyncHandler
vsyncHandler ==
    /\ pc = "idle"
    /\ diskChangeCounter > -MaxIdleTicks
    /\ IF countedDown(diskChangeCounter) # 0
       THEN /\ diskChangeCounter' = countedDown(diskChangeCounter)
            /\ msgs' = << >>
            /\ UNCHANGED << insertionStatus, diskToInsert, disk >>
       ELSE vsyncTransition
    /\ ca1' = << >>
    /\ ticksSince' =
          IF Began(lastCall) THEN Bump(ticksSince, TickCap) ELSE 0
    /\ ejectMsgsSince' =
          IF Began(lastCall) /\ msgs' = << MSG_DISK_EJECT >>
          THEN Bump(ejectMsgsSince, 2)
          ELSE ejectMsgsSince
    /\ ticksInStatus' =
          IF insertionStatus' # insertionStatus
          THEN 0
          ELSE Bump(ticksInStatus, DebounceDelay)
    /\ accepted' =
          IF msgs' = << MSG_DISK_INSERT >>
          THEN NoneAccepted
          ELSE IF msgs' = << MSG_DISK_EJECT >> /\ accepted.disk # nullptr
          THEN [ accepted EXCEPT !.ejects = Bump(@, 1) ]
          ELSE accepted
    /\ headAtRest
    /\ UNCHANGED split
    /\ UNCHANGED suspendCounter
    /\ UNCHANGED << clockVars, cpuVars, uf4Vars, byteReady, pc, lastCall,
                    logVars >>

(***************************************************************************)
(* Collaborators: the drive CPU and the two VIAs                           *)
(***************************************************************************)

Zones == 0 .. 3

\* Bytes the firmware stores into the output latch of VIA2 port A
PAValues == { 0, 167 }

\* Durations the emulation loop passes to execute: one CPU cycle of the
\* computer, in 1/10 nano seconds (NTSC and PAL machines), or two PAL cycles
Durations == { 9777, 10149, 20298 }

\* Interval between two carry pulses of UE7 for each speed zone
delayBetweenTwoCarryPulses == << 10000, 9375, 8750, 8125 >>

\* Drive::readMode and Drive::writeMode: VIA2's CB2 line selects the mode
readMode == via2.cb2

writeMode == ~ via2.cb2

\* Drive::getLightBarrier: blocked by a disk that is half way in or out, and
\* by the write protection mark of the disk
getLightBarrier ==
    \/ insertionStatus \in { DISK_PARTIALLY_INSERTED, DISK_PARTIALLY_EJECTED }
    \/ disk.writeProtected

\* Drive::setZone and Drive::setRotating, called when the firmware writes
\* port B of VIA2
setPortB(z, b) ==
    /\ zone' = z
    /\ spinning' = b
    /\ msgs' = IF spinning = b THEN << >>
               ELSE << IF b THEN "MSG_DRIVE_MOTOR_ON"
                            ELSE "MSG_DRIVE_MOTOR_OFF" >>
    /\ UNCHANGED via2

\* The VIA2 register writes a firmware performs: port B (speed zone and
\* motor), the peripheral control register (CA2 and CB2), port A
AnyFirmware ==
    [ portB |-> Zones \X BOOLEAN,
      pcr |-> BOOLEAN \X BOOLEAN,
      pa |-> PAValues ]

\* A firmware that formats a track: motor on, write mode, data to port A
FormatFirmware ==
    [ portB |-> { << 3, TRUE >> },
      pcr |-> { << TRUE, FALSE >> },
      pa |-> { 167 } ]

\* cpu.executeOneCycle, via1.execute and via2.execute as the drive sees them:
\* a cycle writes at most one VIA2 register
executeOneCycle(firmware) ==
    \/ UNCHANGED << zone, spinning, via2 >> /\ msgs' = << >>
    \/ \E w \in firmware.portB : setPortB(w[1], w[2])
    \/ /\ \E w \in firmware.pcr :
              via2' = [ via2 EXCEPT !.ca2 = w[1], !.cb2 = w[2] ]
       /\ msgs' = << >>
       /\ UNCHANGED << zone, spinning >>
    \/ /\ \E v \in firmware.pa : via2' = [ via2 EXCEPT !.pa = v ]
       /\ msgs' = << >>
       /\ UNCHANGED << zone, spinning >>

(***************************************************************************)
(* Byte ready line                                                         *)
(***************************************************************************)

\* The value Drive::updateByteReady computes for the byte ready line
newByteReady(ca2, uf4, ue3counter) ==
    LET qb == (uf4 \div 2) % 2 = 1
        ue3 == ue3counter = 7
    IN  ~ (ca2 /\ ~ qb /\ ue3)

\* Mutation of updateByteReady: VIA2 is notified of every computed value
updateByteReadyAlways(ca2, uf4, ue3counter) ==
    LET nbr == newByteReady(ca2, uf4, ue3counter)
    IN  byteReady' = nbr /\ ca1' = << nbr >> /\ lastCA1' = << nbr >>

\* Drive::updateByteReady, with the values the line is computed from
updateByteReady(ca2, uf4, ue3counter) ==
    LET nbr == newByteReady(ca2, uf4, ue3counter)
    IN  IF byteReady # nbr
        THEN byteReady' = nbr /\ ca1' = << nbr >> /\ lastCA1' = << nbr >>
        ELSE byteReady' = byteReady /\ ca1' = << >> /\ UNCHANGED lastCA1

\* Mutation of raiseByteReady: the line is left as it is
raiseByteReadyNot ==
    byteReady' = byteReady /\ ca1' = << >> /\ UNCHANGED lastCA1

\* Drive::raiseByteReady
raiseByteReady ==
    IF ~ byteReady
    THEN byteReady' = TRUE /\ ca1' = << TRUE >> /\ lastCA1' = << TRUE >>
    ELSE byteReady' = byteReady /\ ca1' = << >> /\ UNCHANGED lastCA1

(***************************************************************************)
(* Read/write logic                                                        *)
(***************************************************************************)

\* Bits of counterUF4 and of the shift registers that the code reads
UF4Modulus == 16

ReadShiftregModulus == 1024

WriteShiftregModulus == 256

\* Disk::lengthOfHalftrack, for the disk in the drive
lengthOfHalftrack(ht) ==
    IF disk.length = "native" THEN NativeLength(ht) ELSE TrackBits

\* Disk::isValidHeadPos, for the disk in the drive
isValidHeadPos(ht, pos) ==
    /\ ht \in Halftracks
    /\ 0 <= pos
    /\ pos < lengthOfHalftrack(ht)

\* Mutation of readBitFromHead: the bit behind the head is read
readBitFromHeadBehind ==
    IF << halftrack, (offset + 1) % lengthOfHalftrack(halftrack) >>
           \in disk.data
    THEN 1
    ELSE 0

\* Drive::readBitFromHead
readBitFromHead == IF << halftrack, offset >> \in disk.data THEN 1 ELSE 0

\* Drive::rotateDisk: the head position after the disk has moved by one bit
rotateDisk(pos) ==
    IF pos + 1 >= lengthOfHalftrack(halftrack) THEN 0 ELSE pos + 1

\* Drive::writeBitToHead followed by disk.setModified(true)
writeBitToHead(pos, bit) ==
    [ disk EXCEPT !.data = IF bit = 1
                           THEN @ \cup { << halftrack, pos >> }
                           ELSE @ \ { << halftrack, pos >> },
                  !.modified = TRUE ]

\* Mutation of bitComesIn: the bit comes in one carry pulse late
bitComesInLate(counter) == counter % 4 = 1

\* Mutation of bitComesIn: a bit comes in with every second carry pulse
bitComesInTwiceAsOften(counter) == counter % 2 = 0

\* The test of executeUF4 for a new bit under the head
bitComesIn(counter) == counter % 4 = 0

\* Mutation of newSync: eight 1 bits are taken for a sync mark
newSyncOfEight(shiftreg) == (shiftreg % 256 # 255) \/ writeMode

\* The value executeUF4 assigns to the SYNC signal
newSync(shiftreg) == (shiftreg % 1024 # 1023) \/ writeMode

\* Mutation of writeGate: the light barrier is not looked at
writeGateUnguarded == writeMode

\* The condition under which executeUF4 writes to the disk
writeGate == writeMode /\ ~ getLightBarrier

\* Mutation of loadsWriteShiftreg: the register is loaded a bit cell early
loadsWriteShiftregEarly(ue3counter) == ue3counter = 6

\* The condition under which executeUF4 loads the write shift register
loadsWriteShiftreg(ue3counter) == ue3counter = 7

\* The bit of the surface that is under the head
bitUnderHead == BitOf(<< halftrack, offset >> \in disk.data)

\* Consecutive 0 bits under the head are counted up to this number
ZeroRunCap == 5

\* History of the bit cell that executeUF4 is in after the carry pulse that
\* makes the counter cc: whether it began with a read of the head, the bit
\* that was under the head and the number of 0 bits read in a row
cellAfter(cc) ==
    IF bitComesIn(cc) /\ readMode
    THEN [ read |-> TRUE,
           bit |-> bitUnderHead,
           zeros |-> IF bitUnderHead = 1
                     THEN 0
                     ELSE Bump(loaded.cell.zeros, ZeroRunCap) ]
    ELSE IF bitComesIn(cc)
    THEN NoLoad.cell
    ELSE loaded.cell

\* Drive::executeUF4
executeUF4 ==
    LET cc == (carryCounter + 1) % 4
        uf4 == IF bitComesIn(cc) /\ readMode /\ readBitFromHead = 1
               THEN 0
               ELSE (counterUF4 + 1) % UF4Modulus
        pos == IF bitComesIn(cc) THEN rotateDisk(offset) ELSE offset
        ue3counter == IF newSync(readShiftreg) THEN byteReadyCounter ELSE 0
    IN  /\ counterUF4' = uf4
        /\ carryCounter' = cc
        /\ offset' = pos
        /\ sync' = newSync(readShiftreg)
        /\ CASE uf4 % 4 \in { 0, 1 } ->
                  /\ updateByteReady(via2.ca2, uf4, ue3counter)
                  /\ byteReadyCounter' = ue3counter
                  /\ loaded' = [ loaded EXCEPT !.writing = @ /\ writeMode,
                                               !.cell = cellAfter(cc) ]
                  /\ UNCHANGED << disk, writeShiftreg, readShiftreg >>
             [] uf4 % 4 = 2 ->
                  /\ raiseByteReady
                  /\ byteReadyCounter' =
                        IF newSync(readShiftreg)
                        THEN (ue3counter + 1) % 8
                        ELSE 0
                  /\ disk' =
                        IF writeGate
                        THEN writeBitToHead(pos,
                                 (writeShiftreg \div 128) % 2)
                        ELSE disk
                  /\ writeShiftreg' =
                        (writeShiftreg * 2) % WriteShiftregModulus
                  /\ readShiftreg' =
                        ((readShiftreg * 2) % ReadShiftregModulus)
                        + (IF (uf4 \div 4) % 4 = 0 THEN 1 ELSE 0)
                  /\ loaded' = [ loaded EXCEPT !.shifts = Bump(@, 9),
                                               !.writing = @ /\ writeMode,
                                               !.pos = pos,
                                               !.cell = cellAfter(cc) ]
             [] uf4 % 4 = 3 ->
                  /\ byteReadyCounter' = ue3counter
                  /\ IF loadsWriteShiftreg(ue3counter)
                     THEN /\ writeShiftreg' = via2.pa
                          /\ loaded' = [ byte |-> via2.pa, shifts |-> 0,
                                         writing |-> writeMode,
                                         pos |-> loaded.pos,
                                         loads |-> Bump(loaded.loads, 2),
                                         cell |-> cellAfter(cc) ]
                     ELSE /\ writeShiftreg' = writeShiftreg
                          /\ loaded' =
                                [ loaded EXCEPT !.writing = @ /\ writeMode,
                                                !.cell = cellAfter(cc) ]
                  /\ UNCHANGED << disk, readShiftreg, byteReady, lastCA1 >>
                  /\ ca1' = << >>

(***************************************************************************)
(* Drive::execute                                                          *)
(***************************************************************************)

\* Mutation of deadlinePending: the CPU runs one cycle ahead of the time
\* slice
deadlinePendingAhead ==
    nextClock < elapsedTime + ClockPeriod \/ nextCarry < elapsedTime

\* Mutation of deadlinePending: the loop runs only while both are behind
deadlinePendingBoth == nextClock < elapsedTime /\ nextCarry < elapsedTime

\* The loop condition of Drive::execute
deadlinePending == nextClock < elapsedTime \/ nextCarry < elapsedTime

\* Mutation of clockIsNext: a tie goes to the carry pulse
clockIsNextStrict == nextClock < nextCarry

\* The branch condition of the loop of Drive::execute: the CPU is next
clockIsNext == nextClock <= nextCarry

\* Mutation of watermark: the time slice is counted in whole CPU cycles
watermarkInCycles(duration) ==
    elapsedTime + ((duration + ClockPeriod - 1) \div ClockPeriod) * ClockPeriod

\* The time up to which Drive::execute(duration) emulates
watermark(duration) == elapsedTime + duration

\* The comparison of time slices after a call of execute
entered(duration) ==
    IF split.phase = "off"
    THEN split
    ELSE [ split EXCEPT !.calls = Append(@, duration) ]

\* The comparison of time slices after a CPU tick, which in the run in two
\* parts left the CPU and the VIAs as newCpu
clockTicked(newCpu) ==
    IF split.phase = "off"
    THEN split
    ELSE [ split EXCEPT !.ticks = Append(@, "clock"),
                        !.writes = IF split.phase = "first"
                                   THEN Append(@, newCpu)
                                   ELSE @ ]

\* The comparison of time slices after a carry tick
carryTicked ==
    IF split.phase = "off"
    THEN split
    ELSE [ split EXCEPT !.ticks = Append(@, "carry") ]

\* Entry of Drive::execute(duration); the emulation loop stops calling it
\* when elapsedTime has reached maxCycles CPU cycles
execute(duration, maxCycles) ==
    /\ pc = "idle"
    /\ elapsedTime < maxCycles * ClockPeriod
    /\ elapsedTime' = watermark(duration)
    /\ split' = entered(duration)
    /\ pc' = "loop"
    /\ msgs' = << >>
    /\ ca1' = << >>
    /\ lastCall' = [ op |-> "execute", arg |-> nullptr,
                     status |-> insertionStatus, staged |-> diskToInsert ]
    /\ ticksSince' = 0
    /\ ejectMsgsSince' = 0
    /\ headAtRest
    /\ UNCHANGED suspendCounter
    /\ UNCHANGED << swapVars, disk, nextClock, nextCarry, cpuVars, uf4Vars,
                    byteReady, ticksInStatus, accepted, logVars >>

\* Loop iteration of Drive::execute that executes the CPU and the VIAs
executeClock(firmware) ==
    /\ pc = "loop"
    /\ deadlinePending
    /\ clockIsNext
    /\ executeOneCycle(firmware)
    /\ updateByteReady(via2'.ca2, counterUF4, byteReadyCounter)
    /\ nextClock' = nextClock + ClockPeriod
    /\ split' = clockTicked(cpuVars')
    /\ headAtRest
    /\ UNCHANGED suspendCounter
    /\ UNCHANGED << swapVars, disk, elapsedTime, nextCarry, uf4Vars, pc,
                    histVars, loaded >>

\* Loop iteration of Drive::execute that executes the read/write logic
executeCarry ==
    /\ pc = "loop"
    /\ deadlinePending
    /\ ~ clockIsNext
    /\ IF spinning
       THEN executeUF4
       ELSE UNCHANGED << uf4Vars, byteReady, disk, logVars >> /\ ca1' = << >>
    /\ nextCarry' = nextCarry + delayBetweenTwoCarryPulses[zone + 1]
    /\ split' = carryTicked
    /\ msgs' = << >>
    /\ headAtRest
    /\ UNCHANGED suspendCounter
    /\ UNCHANGED << swapVars, elapsedTime, nextClock, cpuVars, pc, histVars >>

\* Exit of the loop of Drive::execute, and the assertion that follows it
executeReturn ==
    /\ pc = "loop"
    /\ ~ deadlinePending
    /\ pc' = "idle"
    /\ UNCHANGED split
    /\ msgs' = << >>
    /\ ca1' = << >>
    /\ headAtRest
    /\ UNCHANGED suspendCounter
    /\ UNCHANGED << swapVars, disk, clockVars, cpuVars, uf4Vars, byteReady,
                    histVars, logVars >>

(***************************************************************************)
(* A time slice executed in two parts and again in one                     *)
(***************************************************************************)

\* What Drive::execute reads and writes of the drive
DriveState ==
    [ disk |-> disk, elapsedTime |-> elapsedTime, nextClock |-> nextClock,
      nextCarry |-> nextCarry, zone |-> zone, spinning |-> spinning,
      via2 |-> via2, counterUF4 |-> counterUF4,
      carryCounter |-> carryCounter, byteReadyCounter |-> byteReadyCounter,
      byteReady |-> byteReady, sync |-> sync, readShiftreg |-> readShiftreg,
      writeShiftreg |-> writeShiftreg, offset |-> offset ]

\* The state between two calls of execute is kept for the second run
takeSnapshot ==
    /\ pc = "idle"
    /\ split.phase = "off"
    /\ split' = [ NoSplit EXCEPT !.phase = "first",
                                 !.start = << DriveState >> ]
    /\ mechanicsAtRest
    /\ UNCHANGED << hostVars, suspendCounter >>

\* After execute(a) and execute(b) the drive is put back into the state
\* that was kept, for execute(a + b)
putBack ==
    /\ pc = "idle"
    /\ split.phase = "first"
    /\ Len(split.calls) = 2
    /\ split' = [ split EXCEPT
                      !.phase = "replay",
                      !.ticks = << >>,
                      !.first = << [ ticks |-> split.ticks,
                                     state |-> DriveState ] >> ]
    /\ LET kept == split.start[1]
       IN  /\ disk' = kept.disk
           /\ elapsedTime' = kept.elapsedTime
           /\ nextClock' = kept.nextClock
           /\ nextCarry' = kept.nextCarry
           /\ zone' = kept.zone
           /\ spinning' = kept.spinning
           /\ via2' = kept.via2
           /\ counterUF4' = kept.counterUF4
           /\ carryCounter' = kept.carryCounter
           /\ byteReadyCounter' = kept.byteReadyCounter
           /\ byteReady' = kept.byteReady
           /\ sync' = kept.sync
           /\ readShiftreg' = kept.readShiftreg
           /\ writeShiftreg' = kept.writeShiftreg
           /\ offset' = kept.offset
    /\ msgs' = << >>
    /\ ca1' = << >>
    /\ trail' = << >>
    /\ UNCHANGED << swapVars, halftrack, headSteps, pc, histVars, logVars,
                    codecVars, hostVars, suspendCounter >>

\* The CPU and the VIAs are deterministic: in the second run a cycle leaves
\* them as the same cycle left them in the first run, as far as the first
\* run went
sameCycleSameWrite ==
    LET cycle == (nextClock - split.start[1].nextClock) \div ClockPeriod + 1
    IN  split.phase = "replay" /\ cycle <= Len(split.writes) =>
            cpuVars' = split.writes[cycle]

\* The second run has returned
replayed ==
    split.phase = "replay" /\ Len(split.calls) = 3 /\ pc = "idle"

(***************************************************************************)
(* Head stepping                                                           *)
(***************************************************************************)

MSG_DRIVE_STEP == "MSG_DRIVE_STEP"

RECURSIVE Pow2(_)
Pow2(n) == IF n = 0 THEN 1 ELSE 2 * Pow2(n - 1)

\* Rounding of float arithmetic, to the nearest value and to the even one in
\* a tie: the quotient q of a division by d that left the remainder r
roundToNearestEven(q, r, d) ==
    IF 2 * r > d \/ (2 * r = d /\ q % 2 = 1) THEN q + 1 ELSE q

\* The largest e for which a * 2^e / b has no more than MantissaBits bits
RECURSIVE quotientExponent(_, _, _)
quotientExponent(a, b, e) ==
    IF 2 * a * Pow2(e) < Pow2(MantissaBits) * b
    THEN quotientExponent(a, b, e + 1)
    ELSE e

\* (float)a / (float)b for integers a >= 0 and b > 0, as the pair << m, e >>
\* that stands for the float m / 2^e
floatDivide(a, b) ==
    IF a = 0
    THEN << 0, 0 >>
    ELSE LET e == quotientExponent(a, b, 0)
             n == a * Pow2(e)
         IN  << roundToNearestEven(n \div b, n % b, b), e >>

\* The smallest s for which p / 2^s has no more than MantissaBits bits
RECURSIVE productShift(_, _)
productShift(p, s) ==
    IF p >= Pow2(MantissaBits + s) THEN productShift(p, s + 1) ELSE s

\* (HeadPos)(f * n) for a float f and an integer n > 0: the float product,
\* converted to an integer by truncation
floatTimes(f, n) ==
    LET p == f[1] * n
        d == Pow2(productShift(p, 0))
    IN  (roundToNearestEven(p \div d, p % d, d) * d) \div Pow2(f[2])

\* The latest two entries of the trail
Recent(t) == IF Len(t) > 2 THEN Tail(t) ELSE t

\* What a head step leaves alone
stepFrame ==
    /\ headSteps' = headSteps + 1
    /\ ca1' = << >>
    /\ UNCHANGED << swapVars, disk, clockVars, cpuVars, counterUF4,
                    carryCounter, byteReadyCounter, sync, readShiftreg,
                    writeShiftreg, byteReady, pc, histVars, logVars,
                    codecVars, hostVars, suspendCounter, split >>

\* Mutation of headCanMoveUp: the head is moved beyond the last halftrack
headCanMoveUpAlways == TRUE

\* The test of Drive::moveHeadUp
headCanMoveUp == halftrack < HighestHalftrack

\* The test of Drive::moveHeadDown
headCanMoveDown == halftrack > 1

\* Drive::moveHeadUp, called by VIA2 when the firmware turns the stepper
moveHeadUp ==
    /\ headSteps < MaxHeadSteps
    /\ IF headCanMoveUp
       THEN LET position ==
                    floatDivide(offset, lengthOfHalftrack(halftrack))
            IN  /\ halftrack' = halftrack + 1
                /\ offset' =
                      floatTimes(position, lengthOfHalftrack(halftrack + 1))
       ELSE UNCHANGED << halftrack, offset >>
    /\ msgs' = << MSG_DRIVE_STEP >>
    /\ trail' = Recent(Append(trail, [ op |-> "moveHeadUp",
                                       halftrack |-> halftrack,
                                       offset |-> offset ]))
    /\ stepFrame

\* Drive::moveHeadDown
moveHeadDown ==
    /\ headSteps < MaxHeadSteps
    /\ IF headCanMoveDown
       THEN LET position ==
                    floatDivide(offset, lengthOfHalftrack(halftrack))
            IN  /\ halftrack' = halftrack - 1
                /\ offset' =
                      floatTimes(position, lengthOfHalftrack(halftrack - 1))
       ELSE UNCHANGED << halftrack, offset >>
    /\ msgs' = << MSG_DRIVE_STEP >>
    /\ trail' = Recent(Append(trail, [ op |-> "moveHeadDown",
                                       halftrack |-> halftrack,
                                       offset |-> offset ]))
    /\ stepFrame

(***************************************************************************)
(* GCR tables of the disk                                                  *)
(***************************************************************************)

\* Number of calls of the GCR functions that gcrCalls records
MaxCalls == 2

\* Mutation of gcr: the codeword of nibble 0 is 01000
gcrWithThreeZeros ==
    << 8, 11, 18, 19,
       14, 15, 22, 23,
       9, 25, 26, 27,
       13, 29, 30, 21 >>

\* Disk::gcr, the codeword of each of the 16 nibbles
gcr ==
    << 10, 11, 18, 19,
       14, 15, 22, 23,
       9, 25, 26, 27,
       13, 29, 30, 21 >>

\* Disk::invgcr, the nibble of each of the 32 patterns of five bits
invgcr ==
    << 255, 255, 255, 255,
       255, 255, 255, 255,
       255, 8, 0, 1,
       255, 12, 4, 5,
       255, 255, 2, 3,
       255, 15, 6, 7,
       255, 9, 10, 11,
       255, 13, 14, 255 >>

\* Mutation of bin2gcr: the codeword of the next nibble is returned
bin2gcrOfNext(value) == gcr[((value + 1) % 16) + 1]

\* Disk::bin2gcr
bin2gcr(value) == gcr[value + 1]

\* Disk::gcr2bin
gcr2bin(value) == invgcr[value + 1]

\* Disk::isGcr
isGcr(value) == invgcr[value + 1] # 255

\* What a call of a GCR function leaves alone
codecFrame ==
    /\ msgs' = << >>
    /\ ca1' = << >>
    /\ trail' = << >>
    /\ UNCHANGED << swapVars, disk, clockVars, cpuVars, uf4Vars, halftrack,
                    headSteps, byteReady, pc, histVars, logVars, hostVars,
                    suspendCounter, split >>

\* A call of bin2gcr with the byte at hand, which the result replaces
bin2gcrCall ==
    /\ Len(gcrCalls) < MaxCalls
    /\ gcrValue < 16
    /\ gcrValue' = bin2gcr(gcrValue)
    /\ gcrCalls' = Append(gcrCalls, [ op |-> "bin2gcr", arg |-> gcrValue,
                                      ret |-> bin2gcr(gcrValue) ])
    /\ codecFrame

\* A call of gcr2bin with the byte at hand, which the result replaces
gcr2binCall ==
    /\ Len(gcrCalls) < MaxCalls
    /\ gcrValue < 32
    /\ gcrValue' = gcr2bin(gcrValue)
    /\ gcrCalls' = Append(gcrCalls, [ op |-> "gcr2bin", arg |-> gcrValue,
                                      ret |-> gcr2bin(gcrValue) ])
    /\ codecFrame

\* A call of isGcr with the byte at hand
isGcrCall ==
    /\ Len(gcrCalls) < MaxCalls
    /\ gcrValue < 32
    /\ gcrCalls' = Append(gcrCalls, [ op |-> "isGcr", arg |-> gcrValue,
                                      ret |-> isGcr(gcrValue) ])
    /\ UNCHANGED gcrValue
    /\ codecFrame

\* The codeword of a nibble is appended to the GCR data written so far
encodeNibbleCall ==
    \E nibble \in 0 .. 15 :
        /\ Len(gcrCalls) < MaxNibbles
        /\ gcrValue' = bin2gcr(nibble)
        /\ gcrCalls' = Append(gcrCalls, [ op |-> "bin2gcr", arg |-> nibble,
                                          ret |-> bin2gcr(nibble) ])
        /\ codecFrame

(***************************************************************************)
(* Drive::setConfigItem                                                    *)
(***************************************************************************)

OPT_DRIVE_CONNECT == "OPT_DRIVE_CONNECT"
OPT_DRIVE_POWER_SWITCH == "OPT_DRIVE_POWER_SWITCH"

MSG_DRIVE_CONNECT == "MSG_DRIVE_CONNECT"
MSG_DRIVE_DISCONNECT == "MSG_DRIVE_DISCONNECT"
MSG_DRIVE_POWER_ON == "MSG_DRIVE_POWER_ON"
MSG_DRIVE_POWER_OFF == "MSG_DRIVE_POWER_OFF"
MSG_DRIVE_ACTIVE == "MSG_DRIVE_ACTIVE"
MSG_DRIVE_INACTIVE == "MSG_DRIVE_INACTIVE"

\* The device number of the drive, and the one of the other drive
DRIVE8 == "DRIVE8"

DRIVE9 == "DRIVE9"

deviceNr == DRIVE8

\* The values handed to setConfigItem
ConfigValues == { 0, 1, 2 }

\* The suspend() and the resume() around a change of config.connected or
\* config.switchedOn
configBracket(depth) == resume(suspend(depth))

\* What a setConfigItem call asks for: nothing of this drive, the value the
\* option has, a connection that needs the missing ROM, or a change
askedFor(option, id, value, hasRom) ==
    IF id # deviceNr THEN "other drive"
    ELSE IF value = BitOf(IF option = OPT_DRIVE_CONNECT
                          THEN config.connected
                          ELSE config.switchedOn) THEN "current value"
    ELSE IF option = OPT_DRIVE_CONNECT /\ value # 0 /\ ~ hasRom
    THEN "missing ROM"
    ELSE "change"

\* Mutation of nowActive: a connected drive is active
nowActiveWhenConnected(newConfig) == newConfig.connected

\* The value setConfigItem assigns to active
nowActive(newConfig) == newConfig.connected /\ newConfig.switchedOn

\* What setConfigItem does once it has decided to change the configuration:
\* the new configuration becomes active, the drive is reset, listeners are
\* informed, true is returned
applyConfig(newConfig, msgOn, msgOff, value) ==
    /\ suspendCounter' = configBracket(suspendCounter)
    /\ config' = newConfig
    /\ active' = nowActive(newConfig)
    /\ halftrack' = ResetHalftrack
    /\ msgs' = << IF value # 0 THEN msgOn ELSE msgOff >>
               \o (IF active # nowActive(newConfig)
                   THEN << IF nowActive(newConfig)
                           THEN MSG_DRIVE_ACTIVE
                           ELSE MSG_DRIVE_INACTIVE >>
                   ELSE << >>)

\* What setConfigItem does when it returns false, asked as it was
returnFalse(asked) ==
    /\ msgs' = << >>
    /\ configCall' = [ asked |-> asked, ret |-> FALSE ]
    /\ UNCHANGED << suspendCounter, config, active, halftrack >>

\* setConfigItem returns true, asked as it was
returnTrue(asked) == configCall' = [ asked |-> asked, ret |-> TRUE ]

\* Drive::setConfigItem(option, id, value) for OPT_DRIVE_CONNECT and
\* OPT_DRIVE_POWER_SWITCH; hasRom is c64.hasRom(ROM_TYPE_VC1541)
setConfigItem(option, id, value, hasRom) ==
    /\ pc = "idle"
    /\ LET asked == askedFor(option, id, value, hasRom)
       IN  IF id # deviceNr
           THEN returnFalse(asked)
           ELSE IF option = OPT_DRIVE_CONNECT
           THEN IF BitOf(config.connected) = value
                   \/ (value # 0 /\ ~ hasRom)
                THEN returnFalse(asked)
                ELSE /\ applyConfig(
                            [ config EXCEPT !.connected = value # 0 ],
                            MSG_DRIVE_CONNECT, MSG_DRIVE_DISCONNECT, value)
                     /\ returnTrue(asked)
           ELSE IF BitOf(config.switchedOn) = value
                THEN returnFalse(asked)
                ELSE /\ applyConfig(
                            [ config EXCEPT !.switchedOn = value # 0 ],
                            MSG_DRIVE_POWER_ON, MSG_DRIVE_POWER_OFF, value)
                     /\ returnTrue(asked)
    /\ ca1' = << >>
    /\ trail' = << >>
    /\ UNCHANGED << swapVars, disk, clockVars, cpuVars, uf4Vars, byteReady,
                    pc, histVars, logVars, headSteps, codecVars, imageVars,
                    tape, t64, exported, volume, monitor, split >>

(***************************************************************************)
(* Datasette                                                               *)
(***************************************************************************)

MSG_VC1530_TAPE == "MSG_VC1530_TAPE"
MSG_VC1530_NO_TAPE == "MSG_VC1530_NO_TAPE"

\* Cycles of a pulse that is longer than a byte can tell, 8 * 256
LongPulse == 2048

\* Datasette::hasTape
hasTape == tape.size # 0

\* Datasette::rewind
rewind(t) == [ t EXCEPT !.head = 0, !.headInCycles = 0 ]

\* Datasette::pulseLength: the cycles of the pulse under the head and the
\* bytes it takes. Byte i of the tape is element i + 1 of the sequence.
pulseLength(t) ==
    IF t.data[t.head + 1] # 0
    THEN [ length |-> 8 * t.data[t.head + 1], skip |-> 1 ]
    ELSE IF t.type = 0
    THEN [ length |-> LongPulse, skip |-> 1 ]
    ELSE IF t.head + 3 < t.size
    THEN [ length |-> t.data[t.head + 2] + 256 * t.data[t.head + 3]
                      + 65536 * t.data[t.head + 4],
           skip |-> 4 ]
    ELSE [ length |-> LongPulse, skip |-> 4 ]

\* assert(head < size) in the function named
assertHeadInTape(t, function) ==
    IF t.head < t.size THEN t ELSE [ t EXCEPT !.failed = @ \cup { function } ]

\* Datasette::advanceHead, with the assertion of the pulseLength it calls
advanceHead(t) ==
    [ assertHeadInTape(assertHeadInTape(t, "advanceHead"), "pulseLength")
      EXCEPT !.head = t.head + pulseLength(t).skip,
             !.headInCycles = t.headInCycles + pulseLength(t).length ]

\* The loop of Datasette::insertTape that runs the head to the end
RECURSIVE fastForward(_)
fastForward(t) == IF t.head < t.size THEN fastForward(advanceHead(t)) ELSE t

\* Datasette::pressStop
pressStop(t) == [ t EXCEPT !.motor = FALSE, !.playKey = FALSE ]

\* The tape as the functions see it when the head is behind its end and
\* the bytes they read there are stray
behindEnd(t, stray) ==
    [ t EXCEPT !.data = @ \o [ i \in 1 .. (t.head + 4 - Len(@)) |-> stray ] ]

\* The first pulse is scheduled and the head is advanced, as pressPlay and
\* _execute do it
schedulePulse(t) ==
    [ advanceHead(t) EXCEPT
          !.nextRisingEdge = pulseLength(t).length \div 2,
          !.nextFallingEdge = pulseLength(t).length ]

\* Datasette::pressPlay; a run ends with the first assertion that fails
pressPlay ==
    /\ tape.failed = { }
    /\ IF ~ hasTape
       THEN UNCHANGED tape
       ELSE \E stray \in 0 .. MaxTapeByte :
                LET t == [ behindEnd(tape, stray) EXCEPT !.playKey = TRUE ]
                IN  tape' = [ schedulePulse(assertHeadInTape(t, "pulseLength"))
                              EXCEPT !.data = tape.data ]
    /\ mechanicsAtRest
    /\ UNCHANGED << imageVars, configVars, suspendCounter, t64, exported,
                    volume, monitor, split >>

\* Datasette::pressStop, called from outside
pressStopCall ==
    /\ tape' = pressStop(tape)
    /\ mechanicsAtRest
    /\ UNCHANGED << imageVars, configVars, suspendCounter, t64, exported,
                    volume, monitor, split >>

\* Datasette::setMotor: the computer switches the motor
setMotor(value) ==
    /\ tape' = [ tape EXCEPT !.motor = value ]
    /\ mechanicsAtRest
    /\ UNCHANGED << imageVars, configVars, suspendCounter, t64, exported,
                    volume, monitor, split >>

\* The loop of Datasette::setHeadInCycles
RECURSIVE forwardTo(_, _)
forwardTo(t, value) ==
    IF t.headInCycles <= value /\ t.head < t.size
    THEN forwardTo(advanceHead(t), value)
    ELSE t

\* Datasette::setHeadInCycles
setHeadInCycles(value) ==
    /\ tape.failed = { }
    /\ tape' = forwardTo(rewind(tape), value)
    /\ mechanicsAtRest
    /\ UNCHANGED << imageVars, configVars, suspendCounter, t64, exported,
                    volume, monitor, split >>

\* The decrement of an edge counter; a counter that was 0 wraps to the
\* largest u64, which does not come down to 0 again while the tape lasts
Wrapped == -1

decrement(counter) == IF counter <= 0 THEN Wrapped ELSE counter - 1

\* Datasette::_execute
execute_ ==
    /\ tape.failed = { }
    /\ IF ~ hasTape \/ ~ tape.playKey \/ ~ tape.motor
       THEN UNCHANGED tape
       ELSE LET t == [ tape EXCEPT
                          !.nextRisingEdge = decrement(@),
                          !.nextFallingEdge = decrement(@) ]
            IN  tape' = IF t.nextFallingEdge # 0 THEN t
                        ELSE IF t.head < t.size THEN schedulePulse(t)
                        ELSE pressStop(t)
    /\ mechanicsAtRest
    /\ UNCHANGED << imageVars, configVars, suspendCounter, t64, exported,
                    volume, monitor, split >>

\* The TAP files that are played: of version 0 with a short, with two short
\* and with a long pulse, of version 1 with a whole zero marker and with
\* zero markers that the tape ends in
PlayTapes ==
    { [ data |-> << 1 >>, version |-> 0 ],
      [ data |-> << 2, 1 >>, version |-> 0 ],
      [ data |-> << 0 >>, version |-> 0 ],
      [ data |-> << 1, 0, 6, 0, 0 >>, version |-> 1 ],
      [ data |-> << 1, 0, 1 >>, version |-> 1 ],
      [ data |-> << 0 >>, version |-> 1 ] }

\* The cycles the head is forwarded to
HeadCycles == { 0, 8, 4000 }

\* The TAP files at hand: version 0 with any bytes, version 1 with pulses
\* that are whole
TapeData == UNION { [ 1 .. n -> 0 .. MaxTapeByte ] : n \in 1 .. MaxTapeSize }

\* No pulse of the tape from the byte head on ends behind the tape
RECURSIVE pulsesWhole(_, _, _)
pulsesWhole(d, v, head) ==
    IF head >= Len(d) THEN TRUE
    ELSE IF d[head + 1] # 0 \/ v = 0 THEN pulsesWhole(d, v, head + 1)
    ELSE head + 3 < Len(d) /\ pulsesWhole(d, v, head + 4)

TAPFiles ==
    { a \in [ data : TapeData, version : { 0, 1 } ] :
        pulsesWhole(a.data, a.version, 0) }

\* Datasette::insertTape
insertTape(a) ==
    LET copied == [ tape EXCEPT !.size = Len(a.data),
                                !.type = a.version,
                                !.data = a.data ]
        wound == fastForward(rewind(copied))
    IN  /\ suspendCounter' = resume(suspend(suspendCounter))
        /\ tape' = rewind([ wound EXCEPT
                                !.durationInCycles = wound.headInCycles ])
        /\ msgs' = << MSG_VC1530_TAPE >>
        /\ ca1' = << >>
        /\ trail' = << >>
        /\ UNCHANGED << swapVars, disk, clockVars, cpuVars, uf4Vars,
                        halftrack, headSteps, byteReady, pc, histVars,
                        logVars, codecVars >>
        /\ UNCHANGED << imageVars, configVars, t64, exported, volume,
                        monitor, split >>

\* Datasette::ejectTape: without a tape it returns right after suspend()
ejectTape ==
    /\ suspendCounter < MaxSuspended
    /\ IF ~ hasTape
       THEN /\ suspendCounter' = suspend(suspendCounter)
            /\ msgs' = << >>
            /\ UNCHANGED tape
       ELSE /\ suspendCounter' = resume(suspend(suspendCounter))
            /\ tape' = [ pressStop(tape) EXCEPT !.data = << >>,
                                                !.size = 0,
                                                !.type = 0,
                                                !.durationInCycles = 0,
                                                !.head = -1 ]
            /\ msgs' = << MSG_VC1530_NO_TAPE >>
    /\ ca1' = << >>
    /\ trail' = << >>
    /\ UNCHANGED << swapVars, disk, clockVars, cpuVars, uf4Vars, halftrack,
                    headSteps, byteReady, pc, histVars, logVars, codecVars >>
    /\ UNCHANGED << imageVars, configVars, t64, exported, volume,
                    monitor, split >>

(***************************************************************************)
(* Monitor::getOption and Monitor::setOption                               *)
(***************************************************************************)

ERROR_OPT_INVARG == "ERROR_OPT_INVARG"

\* The field of Monitor::config that getOption returns for each option
fieldRead ==
    [ OPT_MON_PALETTE |-> "palette",
      OPT_MON_BRIGHTNESS |-> "brightness",
      OPT_MON_CONTRAST |-> "contrast",
      OPT_MON_SATURATION |-> "saturation",
      OPT_MON_HCENTER |-> "hCenter",
      OPT_MON_VCENTER |-> "vCenter",
      OPT_MON_HZOOM |-> "hZoom",
      OPT_MON_VZOOM |-> "vZoom",
      OPT_MON_UPSCALER |-> "upscaler",
      OPT_MON_BLUR |-> "blur",
      OPT_MON_BLUR_RADIUS |-> "blurRadius",
      OPT_MON_BLOOM |-> "bloom",
      OPT_MON_BLOOM_RADIUS |-> "bloomRadius",
      OPT_MON_BLOOM_BRIGHTNESS |-> "brightness",
      OPT_MON_BLOOM_WEIGHT |-> "bloomWeight",
      OPT_MON_DOTMASK |-> "dotmask",
      OPT_MON_DOTMASK_BRIGHTNESS |-> "dotMaskBrightness",
      OPT_MON_SCANLINES |-> "scanlines",
      OPT_MON_SCANLINE_BRIGHTNESS |-> "scanlineBrightness",
      OPT_MON_SCANLINE_WEIGHT |-> "scanlineWeight",
      OPT_MON_DISALIGNMENT |-> "disalignment",
      OPT_MON_DISALIGNMENT_H |-> "disalignmentH",
      OPT_MON_DISALIGNMENT_V |-> "disalignmentV" ]

\* The field of Monitor::config that setOption assigns for each option
fieldWritten ==
    [ OPT_MON_PALETTE |-> "palette",
      OPT_MON_BRIGHTNESS |-> "brightness",
      OPT_MON_CONTRAST |-> "contrast",
      OPT_MON_SATURATION |-> "saturation",
      OPT_MON_HCENTER |-> "hCenter",
      OPT_MON_VCENTER |-> "vCenter",
      OPT_MON_HZOOM |-> "hZoom",
      OPT_MON_VZOOM |-> "vZoom",
      OPT_MON_UPSCALER |-> "upscaler",
      OPT_MON_BLUR |-> "blur",
      OPT_MON_BLUR_RADIUS |-> "blurRadius",
      OPT_MON_BLOOM |-> "bloom",
      OPT_MON_BLOOM_RADIUS |-> "blurRadius",
      OPT_MON_BLOOM_BRIGHTNESS |-> "brightness",
      OPT_MON_BLOOM_WEIGHT |-> "bloomWeight",
      OPT_MON_DOTMASK |-> "dotmask",
      OPT_MON_DOTMASK_BRIGHTNESS |-> "dotMaskBrightness",
      OPT_MON_SCANLINES |-> "scanlines",
      OPT_MON_SCANLINE_BRIGHTNESS |-> "scanlineBrightness",
      OPT_MON_SCANLINE_WEIGHT |-> "scanlineWeight",
      OPT_MON_DISALIGNMENT |-> "disalignment",
      OPT_MON_DISALIGNMENT_H |-> "disalignmentH",
      OPT_MON_DISALIGNMENT_V |-> "disalignmentV" ]

MonitorOptions == DOMAIN fieldRead

\* The fields of Monitor::config
MonitorFields ==
    { fieldRead[o] : o \in MonitorOptions }
    \cup { fieldWritten[o] : o \in MonitorOptions }
    \cup { "bloomBrightness" }

\* The options whose value is a key of an enumeration, and the options with
\* a value of 0...100
EnumOptions ==
    { "OPT_MON_PALETTE", "OPT_MON_UPSCALER", "OPT_MON_DOTMASK",
      "OPT_MON_SCANLINES" }

PercentOptions ==
    { "OPT_MON_BRIGHTNESS", "OPT_MON_CONTRAST", "OPT_MON_SATURATION" }

\* PaletteEnum::isValid and the like: the keys of an enumeration
isValid(value) == value \in { 0, 1 }

\* The test of setOption for a value of 0...100
expected0to100(value) == value >= 0 /\ value <= 100

\* Monitor::getOption
getOption(cfg, option) == cfg[fieldRead[option]]

\* Monitor::setOption throws for this option and this value
throws(cfg, option, value) ==
    \/ option \in EnumOptions /\ ~ isValid(value)
    \/ option \in PercentOptions /\ ~ expected0to100(cfg[fieldWritten[option]])

\* The values handed to setOption
MonitorValues == { -1, 0, 50, 100, 101 }

\* Monitor::setOption
setOption(option, value) ==
    /\ Len(monitor.calls) < MaxOptionCalls
    /\ monitor' =
          [ config |-> IF throws(monitor.config, option, value)
                       THEN monitor.config
                       ELSE [ monitor.config EXCEPT
                                  ![fieldWritten[option]] = value ],
            before |-> monitor.config,
            calls |-> Append(monitor.calls,
                             [ option |-> option, value |-> value,
                               ret |-> IF throws(monitor.config, option,
                                                 value)
                                       THEN ERROR_OPT_INVARG
                                       ELSE "none" ]) ]
    /\ mechanicsAtRest
    /\ UNCHANGED << imageVars, configVars, suspendCounter, tape, t64,
                    exported, volume, split >>

(***************************************************************************)
(* T64File::repair                                                         *)
(***************************************************************************)

\* The places of a T64 archive: the item count in the header, the first
\* directory slot, the size of a slot, and in a slot the start and the end
\* address in memory and the offset of the file in the container
CountField == 36

DirectoryStart == 64

SlotSize == 32

MemStartField == 2

MemEndField == 4

OffsetField == 8

\* The end address that CONVC64 left in its archives, 0xC3C6
EndAddrSentinel == 50118

\* Width of u16
U16 == 65536

LO_BYTE(x) == x % 256

HI_BYTE(x) == (x \div 256) % 256

LO_HI(a, b) == a + 256 * b

LO_LO_HI_HI(a, b, c, d) == a + 256 * b + 65536 * c + 16777216 * d

\* Byte i of the archive, which is element i + 1 of the sequence
ByteOf(t, i) == t.data[i + 1]

\* T64File::collectionCount
collectionCount(t) == LO_HI(ByteOf(t, CountField), ByteOf(t, CountField + 1))

\* T64File::memStart
memStart(t, nr) ==
    LO_HI(ByteOf(t, DirectoryStart + MemStartField + nr * SlotSize),
          ByteOf(t, DirectoryStart + MemStartField + 1 + nr * SlotSize))

\* T64File::memEnd
memEnd(t, nr) ==
    LO_HI(ByteOf(t, DirectoryStart + MemEndField + nr * SlotSize),
          ByteOf(t, DirectoryStart + MemEndField + 1 + nr * SlotSize))

\* The offset of the file of an item in the container, all four bytes
offsetInContainer(t, nr) ==
    LET n == DirectoryStart + OffsetField + nr * SlotSize
    IN  LO_LO_HI_HI(ByteOf(t, n), ByteOf(t, n + 1), ByteOf(t, n + 2),
                    ByteOf(t, n + 3))

\* T64File::directoryItemIsPresent
directoryItemIsPresent(t, item) ==
    LET first == DirectoryStart + item * SlotSize
        last == DirectoryStart + SlotSize + item * SlotSize
    IN  /\ last < t.size
        /\ \E i \in first .. last - 1 : ByteOf(t, i) # 0

\* The loop of T64File::repair that counts the items, in a u16
RECURSIVE countItems(_, _)
countItems(t, noOfItems) ==
    IF directoryItemIsPresent(t, noOfItems)
    THEN countItems(t, (noOfItems + 1) % U16)
    ELSE noOfItems

\* Two bytes of the archive are replaced by a u16, low byte first
storeU16(t, n, value) ==
    [ t EXCEPT !.data[n + 1] = LO_BYTE(value),
               !.data[n + 2] = HI_BYTE(value) ]

\* The loop of T64File::repair over the items, from item i on; the offset
\* in the container is held in a u16
RECURSIVE repairItems(_, _, _)
repairItems(t, i, noOfItems) ==
    IF i >= noOfItems
    THEN [ t EXCEPT !.ret = << TRUE >> ]
    ELSE LET startAddrInContainer == offsetInContainer(t, i) % U16
             startAddrInMemory == memStart(t, i)
             endAddrInMemory == memEnd(t, i)
             fixedEndAddrInMemory ==
                 (startAddrInMemory + (t.size - startAddrInContainer)) % U16
         IN  IF startAddrInContainer >= t.size
             THEN [ t EXCEPT !.ret = << FALSE >> ]
             ELSE repairItems(
                      IF endAddrInMemory = EndAddrSentinel
                      THEN storeU16(t, DirectoryStart + MemEndField
                                       + i * SlotSize,
                                    fixedEndAddrInMemory)
                      ELSE t,
                      i + 1, noOfItems)

\* T64File::repair
repair(t) ==
    LET noOfItems == IF collectionCount(t) = 0
                     THEN countItems(t, 0)
                     ELSE collectionCount(t)
        counted == IF noOfItems # collectionCount(t)
                   THEN storeU16(t, CountField, noOfItems)
                   ELSE t
    IN  repairItems(counted, 0, noOfItems)

\* The directory slots at hand: an empty one, one with nothing but its last
\* byte, and the entries of files with the end address and the offset in
\* the container that are listed
EmptySlot == [ type |-> 0, start |-> 0, end |-> 0, offset |-> 0, last |-> 0 ]

SlotKinds ==
    { EmptySlot, [ EmptySlot EXCEPT !.last = 1 ] }
    \cup { [ type |-> 1, start |-> 2049, end |-> e, offset |-> o,
             last |-> 0 ] :
           e \in { EndAddrSentinel, 2304 },
           o \in { DirectoryStart + SlotSize, U16 + DirectoryStart + SlotSize,
                   300 } }

\* Byte j of a directory slot
slotByte(slot, j) ==
    CASE j = 0 -> slot.type
      [] j = MemStartField -> LO_BYTE(slot.start)
      [] j = MemStartField + 1 -> HI_BYTE(slot.start)
      [] j = MemEndField -> LO_BYTE(slot.end)
      [] j = MemEndField + 1 -> HI_BYTE(slot.end)
      [] j = OffsetField -> LO_BYTE(slot.offset)
      [] j = OffsetField + 1 -> HI_BYTE(slot.offset)
      [] j = OffsetField + 2 -> (slot.offset \div U16) % 256
      [] j = SlotSize - 1 -> slot.last
      [] OTHER -> 0

\* The archive of size bytes with the item count and the directory slots
\* given, zero where nothing else is said
T64Archive(size, count, slots) ==
    [ data |-> [ i \in 1 .. size |->
                   IF i - 1 = CountField THEN LO_BYTE(count)
                   ELSE IF i - 1 = CountField + 1 THEN HI_BYTE(count)
                   ELSE IF i - 1 >= DirectoryStart
                           /\ (i - 1 - DirectoryStart) \div SlotSize
                                  < Len(slots)
                   THEN slotByte(
                            slots[(i - 1 - DirectoryStart) \div SlotSize + 1],
                            (i - 1 - DirectoryStart) % SlotSize)
                   ELSE 0 ],
      size |-> size, ret |-> << >>, original |-> << >>, fs |-> << >> ]

\* The archives at hand: the directory of the items the header counts lies
\* inside the archive
T64Archives ==
    { T64Archive(DirectoryStart + SlotSize * k + e, count, slots) :
        k \in 0 .. MaxSlots, e \in { 0, 8 }, count \in 0 .. MaxSlots,
        slots \in [ 1 .. MaxSlots -> SlotKinds ] }

ReadableArchives ==
    { t \in T64Archives :
        DirectoryStart + SlotSize * collectionCount(t) <= t.size }

\* A call of T64File::repair on the archive at hand
repairCall ==
    /\ t64.ret = << >>
    /\ t64' = [ repair(t64) EXCEPT !.original = t64.data ]
    /\ mechanicsAtRest
    /\ UNCHANGED << imageVars, configVars, suspendCounter, tape, exported,
                    volume, monitor, split >>

(***************************************************************************)
(* MyDocument.export(fs:to:) and PRGFile::makePRGArchiveWithAnyArchive     *)
(***************************************************************************)

FILE_TYPE_MISMATCH == "FILE_TYPE_MISMATCH"

\* The file types a URL can name; G64 stands for those that a filesystem
\* is not exported to
FileTypes == { "D64", "T64", "PRG", "P00", "G64" }

\* The files at hand, each with its load address and its data bytes, and
\* the filesystems made of them
Files ==
    [ addr : { 2049, 49152 }, bytes : { << >>, << 1 >>, << 2, 3 >> } ]

FileSystems == UNION { [ 1 .. n -> Files ] : n \in 0 .. MaxFiles }

\* The archive interface: the number of items, the size and the load
\* address of an item, and its bytes as getByte hands them out up to EOF
getNumberOfItems(archive) == Len(archive)

getSizeOfItem(archive, item) == Len(archive[item + 1].bytes)

getDestinationAddrOfItem(archive, item) == archive[item + 1].addr

getBytes(archive, item) == archive[item + 1].bytes

\* The item that PRGFile::makePRGArchiveWithAnyArchive exports
exportItem == 0

\* PRGFile::makePRGArchiveWithAnyArchive: no archive (an empty sequence), or
\* the one archive made: the load address and the bytes of the item
makePRGArchiveWithAnyArchive(otherArchive) ==
    IF getNumberOfItems(otherArchive) <= exportItem
    THEN << >>
    ELSE << [ size |-> 2 + getSizeOfItem(otherArchive, exportItem),
              data |-> << LO_BYTE(getDestinationAddrOfItem(otherArchive,
                                                           exportItem)),
                          HI_BYTE(getDestinationAddrOfItem(otherArchive,
                                                           exportItem)) >>
                       \o getBytes(otherArchive, exportItem) ] >>

\* A container that holds every file of the filesystem
makeContainer(fs) == << [ size |-> Len(fs), data |-> fs ] >>

\* Mutation of showsMultipleFilesAlert: the advisory is shown for any
\* filesystem that has a file
showsMultipleFilesAlertForOne(numFiles) == numFiles >= 1

\* The condition under which export shows the advisory
showsMultipleFilesAlert(numFiles) == numFiles > 1

\* The advisory of showMultipleFilesAlert
MultipleFilesAlert(format) ==
    << "Only the first file will be exported.", format >>

\* MyDocument.export(fs:to:) with its call of export(file:to:); a proxy
\* that cannot be made throws
export(fs, type) ==
    LET single == type \in { "PRG", "P00" }
        file == IF single THEN makePRGArchiveWithAnyArchive(fs)
                          ELSE makeContainer(fs)
    IN  /\ exported' =
               [ type |-> type,
                 fs |-> fs,
                 advisory |->
                     IF single /\ showsMultipleFilesAlert(Len(fs))
                     THEN MultipleFilesAlert(type)
                     ELSE << >>,
                 written |->
                     IF type \in { "D64", "T64", "PRG", "P00" }
                     THEN file
                     ELSE << >>,
                 error |->
                     IF type \notin { "D64", "T64", "PRG", "P00" }
                     THEN FILE_TYPE_MISMATCH
                     ELSE IF file = << >> THEN "make failed"
                     ELSE "none" ]
        /\ mechanicsAtRest
        /\ UNCHANGED << imageVars, configVars, suspendCounter, tape, t64,
                        volume, monitor, split >>

(***************************************************************************)
(* T64File::makeWithFileSystem, T64File::itemSize, T64File::readByte       *)
(***************************************************************************)

\* The magic bytes "C64 tape image file" as strncpy stores them in 32 bytes
MagicBytes ==
    << 67, 54, 52, 32, 116, 97, 112, 101, 32, 105, 109, 97, 103, 101, 32,
       102, 105, 108, 101 >>
    \o [ i \in 1 .. 13 |-> 0 ]

\* The least number of directory slots of an archive
MinSlots == 30

\* The character that names are padded with
PadChar == 32

\* FSDevice::fileSize: the bytes of a file and the two bytes of its load
\* address
fileSize(fs, n) == Len(fs[n + 1].bytes) + 2

\* The header of the archive: magic bytes, version, the number of slots,
\* the number of files, two reserved bytes and the padded description
headerOf(maxFiles, numFiles) ==
    MagicBytes
    \o << 1, 1, LO_BYTE(maxFiles), HI_BYTE(maxFiles),
          LO_BYTE(numFiles), HI_BYTE(numFiles), 0, 0 >>
    \o [ i \in 1 .. 24 |-> PadChar ]

\* The directory slot of a file that begins at tapePosition
entryOf(startAddr, length, tapePosition) ==
    LET endAddr == (startAddr + length) % U16
    IN  << 1, 130, LO_BYTE(startAddr), HI_BYTE(startAddr),
           LO_BYTE(endAddr), HI_BYTE(endAddr), 0, 0,
           LO_BYTE(tapePosition), LO_BYTE(tapePosition \div 256),
           LO_BYTE(tapePosition \div 65536),
           LO_BYTE(tapePosition \div 16777216), 0, 0, 0, 0 >>
        \o [ i \in 1 .. 16 |-> PadChar ]

\* The tape position of the slot after a slot: the loop adds the size of
\* the archive; the u32 does not wrap for the archives at hand
nextTapePosition(tapePosition, archiveSize, length) ==
    tapePosition + archiveSize

\* The loop over the directory slots from slot n on
RECURSIVE tapeEntries(_, _, _, _, _)
tapeEntries(fs, n, maxFiles, tapePosition, archiveSize) ==
    IF n >= maxFiles THEN << >>
    ELSE IF n >= Len(fs)
    THEN [ i \in 1 .. SlotSize |-> 0 ]
         \o tapeEntries(fs, n + 1, maxFiles, tapePosition, archiveSize)
    ELSE entryOf(fs[n + 1].addr, fileSize(fs, n) - 2, tapePosition)
         \o tapeEntries(fs, n + 1, maxFiles,
                        nextTapePosition(tapePosition, archiveSize,
                                         fileSize(fs, n) - 2),
                        archiveSize)

\* The loop that copies the bytes of the files behind their load addresses
RECURSIVE fileData(_, _)
fileData(fs, n) ==
    IF n >= Len(fs) THEN << >>
    ELSE fs[n + 1].bytes \o fileData(fs, n + 1)

\* T64File::makeWithFileSystem
makeWithFileSystem(fs) ==
    LET numFiles == Len(fs)
        dataLength == Len(fileData(fs, 0))
        maxFiles == IF numFiles > MinSlots THEN numFiles ELSE MinSlots
        archiveSize == DirectoryStart + maxFiles * SlotSize + dataLength
    IN  [ NoArchive EXCEPT
              !.size = archiveSize,
              !.data = headerOf(maxFiles, numFiles)
                       \o tapeEntries(fs, 0, maxFiles,
                                      DirectoryStart + maxFiles * SlotSize,
                                      archiveSize)
                       \o fileData(fs, 0),
              !.fs = << fs >> ]

\* T64File::itemSize
itemSize(t, nr) == memEnd(t, nr) - memStart(t, nr) + 2

\* T64File::readByte; a byte behind the end of the archive is stray
readByte(t, nr, pos, stray) ==
    IF pos <= 1
    THEN IF pos = 1 THEN HI_BYTE(memStart(t, nr)) ELSE LO_BYTE(memStart(t, nr))
    ELSE IF offsetInContainer(t, nr) + pos - 2 < t.size
    THEN ByteOf(t, offsetInContainer(t, nr) + pos - 2)
    ELSE stray

\* A filesystem is made into an archive
makeWithFileSystemCall ==
    /\ t64 = NoArchive
    /\ \E fs \in FileSystems : t64' = makeWithFileSystem(fs)
    /\ mechanicsAtRest
    /\ UNCHANGED << imageVars, configVars, suspendCounter, tape, exported,
                    volume, monitor, split >>

\* A byte of an item of the archive is read
readByteCall ==
    /\ t64.fs # << >>
    /\ \E nr \in 0 .. (collectionCount(t64) - 1), stray \in { 0, 255 } :
          \E pos \in 0 .. (itemSize(t64, nr) - 1) :
              t64' = [ t64 EXCEPT !.ret =
                         << [ nr |-> nr, pos |-> pos,
                              byte |-> readByte(t64, nr, pos, stray) ] >> ]
    /\ mechanicsAtRest
    /\ UNCHANGED << imageVars, configVars, suspendCounter, tape, exported,
                    volume, monitor, split >>

(***************************************************************************)
(* Bit functions of the disk (Disk.h)                                      *)
(***************************************************************************)

\* The bitwise and, and the bitwise or, of two naturals
RECURSIVE BitAnd(_, _)
BitAnd(a, b) ==
    IF a = 0 \/ b = 0
    THEN 0
    ELSE 2 * BitAnd(a \div 2, b \div 2)
         + (IF a % 2 = 1 /\ b % 2 = 1 THEN 1 ELSE 0)

RECURSIVE BitOr(_, _)
BitOr(a, b) ==
    IF a = 0 THEN b
    ELSE IF b = 0 THEN a
    ELSE 2 * BitOr(a \div 2, b \div 2)
         + (IF a % 2 = 1 \/ b % 2 = 1 THEN 1 ELSE 0)

\* Disk::isValidHeadPos
isValidImagePos(img, ht, pos) == 0 <= pos /\ pos < img.length[ht]

\* Disk::wrap
wrap(img, ht, pos) == pos % img.length[ht]

\* Mutation of setMask: the bits of a byte are counted from the right
setMaskLsbFirst(pos) == Pow2(pos % 8)

\* The mask that selects the bit of a position in its byte, 0x80 >> (pos % 8)
setMask(pos) == 128 \div Pow2(pos % 8)

\* Mutation of clearMask: the mask is a byte, 0x7F >> (pos % 8), and clears
\* the bits before the position with it
clearMaskOfByte(pos) == 127 \div Pow2(pos % 8)

\* The mask that clears the bit of a position, 0xFF7F >> (pos % 8)
clearMask(pos) == 65407 \div Pow2(pos % 8)

\* Disk::_readBitFromHalftrack, but for its assertion
_readBitFromHalftrack(img, ht, pos) ==
    IF BitAnd(img.data[ht][pos \div 8 + 1], setMask(pos)) # 0 THEN 1 ELSE 0

\* Disk::readBitFromHalftrack
readBitFromHalftrack(img, ht, pos) ==
    _readBitFromHalftrack(img, ht, wrap(img, ht, pos))

\* Disk::_writeBitToHalftrack, but for its assertion; the array element is
\* a byte
_writeBitToHalftrack(img, ht, pos, bit) ==
    LET old == img.data[ht][pos \div 8 + 1]
    IN  [ img EXCEPT !.data[ht][pos \div 8 + 1] =
            IF bit
            THEN BitOr(old, setMask(pos)) % 256
            ELSE BitAnd(old, clearMask(pos)) % 256 ]

\* Disk::writeBitToHalftrack(ht, pos, bit)
writeBitToHalftrack(img, ht, pos, bit) ==
    _writeBitToHalftrack(img, ht, wrap(img, ht, pos), bit)

\* Disk::writeBitToHalftrack(ht, pos, bit, count)
RECURSIVE writeBitToHalftrackCount(_, _, _, _, _)
writeBitToHalftrackCount(img, ht, pos, bit, count) ==
    IF count <= 0
    THEN img
    ELSE writeBitToHalftrackCount(writeBitToHalftrack(img, ht, pos, bit),
                                  ht, pos + 1, bit, count - 1)

\* Disk::writeBitToTrack(t, pos, bit, count)
writeBitToTrackCount(img, t, pos, bit, count) ==
    writeBitToHalftrackCount(img, 2 * t - 1, pos, bit, count)

\* The loop of Disk::writeByteToHalftrack from the mask on
RECURSIVE writeByteFromMask(_, _, _, _, _)
writeByteFromMask(img, ht, pos, byte, mask) ==
    IF mask = 0
    THEN img
    ELSE writeByteFromMask(
             writeBitToHalftrack(img, ht, pos, BitAnd(byte, mask) # 0),
             ht, pos + 1, byte, mask \div 2)

\* Disk::writeByteToHalftrack
writeByteToHalftrack(img, ht, pos, byte) ==
    writeByteFromMask(img, ht, pos, byte, 128)

\* Disk::writeByteToTrack
writeByteToTrack(img, t, pos, byte) ==
    writeByteToHalftrack(img, 2 * t - 1, pos, byte)

\* The byte between the blocks of a track
GapByte == 85

\* Disk::writeGapToHalftrack
RECURSIVE writeGapToHalftrack(_, _, _, _)
writeGapToHalftrack(img, ht, pos, length) ==
    IF length <= 0
    THEN img
    ELSE writeGapToHalftrack(writeByteToHalftrack(img, ht, pos, GapByte),
                             ht, pos + 8, length - 1)

\* Disk::writeGapToTrack
writeGapToTrack(img, t, pos, length) ==
    writeGapToHalftrack(img, 2 * t - 1, pos, length)

\* What _writeBitToHalftrack stores when its assertion is compiled out and
\* the position is not one of the halftrack: the byte pos / 8 counted from
\* the first byte of the halftrack, in the array of the halftracks or, behind
\* the last of them, in memory that is not the disk's
storeBeyondHalftrack(img, ht, pos, bit) ==
    LET flat == (ht - 1) * ImageCapacity + pos \div 8
        target == flat \div ImageCapacity + 1
    IN  IF target \in ImageHalftracks
        THEN [ data |-> _writeBitToHalftrack(
                            img, target,
                            8 * (flat % ImageCapacity) + (pos % 8),
                            bit).data,
               length |-> img.length ]
        ELSE img

\* The positions, bytes and counts handed to the bit functions
ImagePositions ==
    { 0, 7, ImageBits - 1, ImageBits, ImageNativeBits + 2,
      2 * ImageNativeBits + 1 }

ImageBytes == { 167, GapByte }

ImageCounts == { 0, 1, 3 }

GapLengths == { 0, 1, 2 }

\* The record of a call of a bit function: its arguments, the disk it
\* found, whether an assertion failed in it and what it returned
Access(op, ht, pos, value, count, tripped, ret) ==
    [ op |-> op, ht |-> ht, pos |-> pos, value |-> value, count |-> count,
      tripped |-> tripped, ret |-> ret, before |-> image ]

\* What a call of a bit function leaves alone
imageFrame ==
    /\ mechanicsAtRest
    /\ UNCHANGED << suspendCounter, configVars, tape, t64, exported,
                    volume, monitor, split >>

\* A call of readBitFromHalftrack
readBitFromHalftrackCall ==
    \E ht \in ImageHalftracks, pos \in ImagePositions :
        /\ Len(access) < MaxAccesses
        /\ access' = Append(access,
               Access("readBitFromHalftrack", ht, pos, 0, 1,
                      ~ isValidImagePos(image, ht, wrap(image, ht, pos)),
                      readBitFromHalftrack(image, ht, pos)))
        /\ UNCHANGED image
        /\ imageFrame

\* A call of writeBitToHalftrack(ht, pos, bit)
writeBitToHalftrackCall ==
    \E ht \in ImageHalftracks, pos \in ImagePositions, bit \in BOOLEAN :
        /\ Len(access) < MaxAccesses
        /\ image' = writeBitToHalftrack(image, ht, pos, bit)
        /\ access' = Append(access,
               Access("writeBitToHalftrack", ht, pos, BitOf(bit), 1,
                      ~ isValidImagePos(image, ht, wrap(image, ht, pos)),
                      0))
        /\ imageFrame

\* A call of writeBitToTrack(t, pos, bit): it hands the position as it got
\* it to _writeBitToHalftrack, where the assertion stops the program or,
\* compiled out, lets the byte be stored
writeBitToTrackCall ==
    \E t \in ImageTracks, pos \in ImagePositions, bit \in BOOLEAN :
        /\ Len(access) < MaxAccesses
        /\ IF isValidImagePos(image, 2 * t - 1, pos)
           THEN image' = _writeBitToHalftrack(image, 2 * t - 1, pos, bit)
           ELSE image' \in
                    { image, storeBeyondHalftrack(image, 2 * t - 1, pos, bit) }
        /\ access' = Append(access,
               Access("writeBitToTrack", 2 * t - 1, pos, BitOf(bit), 1,
                      ~ isValidImagePos(image, 2 * t - 1, pos), 0))
        /\ imageFrame

\* A call of writeBitToHalftrack(ht, pos, bit, count)
writeBitToHalftrackCountCall ==
    \E ht \in ImageHalftracks, pos \in ImagePositions, bit \in BOOLEAN,
       count \in ImageCounts :
        /\ Len(access) < MaxAccesses
        /\ image' = writeBitToHalftrackCount(image, ht, pos, bit, count)
        /\ access' = Append(access,
               Access("writeBitToHalftrackCount", ht, pos, BitOf(bit), count,
                      FALSE, 0))
        /\ imageFrame

\* A call of writeBitToTrack(t, pos, bit, count)
writeBitToTrackCountCall ==
    \E t \in ImageTracks, pos \in ImagePositions, bit \in BOOLEAN,
       count \in ImageCounts :
        /\ Len(access) < MaxAccesses
        /\ image' = writeBitToTrackCount(image, t, pos, bit, count)
        /\ access' = Append(access,
               Access("writeBitToTrackCount", 2 * t - 1, pos, BitOf(bit), count,
                      FALSE, 0))
        /\ imageFrame

\* A call of writeByteToHalftrack
writeByteToHalftrackCall ==
    \E ht \in ImageHalftracks, pos \in ImagePositions, byte \in ImageBytes :
        /\ Len(access) < MaxAccesses
        /\ image' = writeByteToHalftrack(image, ht, pos, byte)
        /\ access' = Append(access,
               Access("writeByteToHalftrack", ht, pos, byte, 1, FALSE, 0))
        /\ imageFrame

\* A call of writeGapToHalftrack
writeGapToHalftrackCall ==
    \E ht \in ImageHalftracks, pos \in ImagePositions,
       length \in GapLengths :
        /\ Len(access) < MaxAccesses
        /\ image' = writeGapToHalftrack(image, ht, pos, length)
        /\ access' = Append(access,
               Access("writeGapToHalftrack", ht, pos, GapByte, length,
                      FALSE, 0))
        /\ imageFrame

(***************************************************************************)
(* The filesystem that Disk::encode takes and Disk::decodeDisk gives       *)
(***************************************************************************)

\* The bitwise exclusive or of two naturals
RECURSIVE BitXor(_, _)
BitXor(a, b) ==
    IF a = 0 THEN b
    ELSE IF b = 0 THEN a
    ELSE 2 * BitXor(a \div 2, b \div 2) + ((a + b) % 2)

\* The checksum of a block: the exclusive or of its bytes
RECURSIVE checksum(_)
checksum(bytes) ==
    IF bytes = << >>
    THEN 0
    ELSE BitXor(Head(bytes), checksum(Tail(bytes)))

\* A sequence of bytes filled with zero bytes up to n bytes
Pad(bytes, n) == bytes \o [ i \in 1 .. (n - Len(bytes)) |-> 0 ]

\* The track of the allocation map and the directory, and the track of the
\* file data
DirTrack == 1

DataTrack == 2

\* Disk::numberOfSectorsInTrack: the directory track holds the allocation
\* map and one directory block per file, the data track two blocks per
\* file
numberOfSectorsInTrack(t) ==
    IF t = DirTrack THEN 1 + MaxFiles ELSE 2 * MaxFiles

\* The place of the block of a track and a sector in the sequence of the
\* blocks of a filesystem
blockNr(t, s) ==
    IF t = DirTrack THEN s + 1 ELSE numberOfSectorsInTrack(DirTrack) + s + 1

\* A track and a sector of the filesystem
isBlock(t, s) ==
    /\ t \in { DirTrack, DataTrack }
    /\ s \in 0 .. (numberOfSectorsInTrack(t) - 1)

\* The bytes of a block behind the link to the next block
PayloadBytes == BlockBytes - 2

\* What a file is stored as: the load address and the data bytes
contentOf(file) ==
    << LO_BYTE(file.addr), HI_BYTE(file.addr) >> \o file.bytes

\* The number of blocks of a file
numBlocks(file) ==
    (Len(contentOf(file)) + PayloadBytes - 1) \div PayloadBytes

\* The allocation map: the link to the directory and the DOS type
bamBlock == Pad(<< DirTrack, 1, 65 >>, BlockBytes)

\* The k-th directory block of a filesystem: the link to the next one, or
\* the end mark, and the entry of file k with its type (PRG, closed), its
\* first block, its name and its size in blocks
dirBlock(files, k) ==
    IF k > Len(files)
    THEN Pad(IF k = 1 THEN << 0, 255 >> ELSE << >>, BlockBytes)
    ELSE Pad((IF k < Len(files) THEN << DirTrack, k + 1 >>
                                ELSE << 0, 255 >>)
             \o << 130, DataTrack, 2 * (k - 1), files[k].name,
                   numBlocks(files[k]) >>,
             BlockBytes)

\* The j-th data block of file k: the link to the next block, or zero and
\* the index of the last byte in use, and the bytes of the file
dataBlock(files, k, j) ==
    IF k > Len(files) \/ j > numBlocks(files[k])
    THEN Pad(<< >>, BlockBytes)
    ELSE LET content == contentOf(files[k])
             first == (j - 1) * PayloadBytes + 1
             last == IF j * PayloadBytes < Len(content)
                     THEN j * PayloadBytes
                     ELSE Len(content)
             chunk == SubSeq(content, first, last)
         IN  Pad((IF j < numBlocks(files[k])
                  THEN << DataTrack, 2 * (k - 1) + j >>
                  ELSE << 0, Len(chunk) + 1 >>) \o chunk,
                 BlockBytes)

\* The filesystem that holds the files: its blocks, track by track
makeWithFiles(files) ==
    << bamBlock >>
    \o [ k \in 1 .. MaxFiles |-> dirBlock(files, k) ]
    \o [ i \in 1 .. (2 * MaxFiles) |->
           dataBlock(files, ((i - 1) \div 2) + 1, ((i - 1) % 2) + 1) ]

\* The bytes of the file that starts at a block, read along its chain of
\* at most n blocks
RECURSIVE readChain(_, _, _, _)
readChain(blocks, t, s, n) ==
    IF n = 0 \/ ~isBlock(t, s)
    THEN << >>
    ELSE LET b == blocks[blockNr(t, s)]
         IN  IF b[1] = 0
             THEN SubSeq(b, 3, IF b[2] + 1 < BlockBytes THEN b[2] + 1
                                                        ELSE BlockBytes)
             ELSE SubSeq(b, 3, BlockBytes)
                  \o readChain(blocks, b[1], b[2], n - 1)

\* The file of a directory entry: its name, its load address and its bytes
fileOfEntry(blocks, d) ==
    LET content == readChain(blocks, d[4], d[5], d[7])
    IN  [ name |-> d[6],
          addr |-> IF Len(content) >= 2 THEN LO_HI(content[1], content[2])
                                        ELSE 0,
          bytes |-> IF Len(content) >= 2
                    THEN SubSeq(content, 3, Len(content))
                    ELSE << >> ]

\* The files of the directory from a block on, read along the chain of at
\* most n directory blocks
RECURSIVE readDirectory(_, _, _, _)
readDirectory(blocks, t, s, n) ==
    IF n = 0 \/ ~isBlock(t, s)
    THEN << >>
    ELSE LET d == blocks[blockNr(t, s)]
         IN  (IF d[3] = 0 THEN << >> ELSE << fileOfEntry(blocks, d) >>)
             \o (IF d[1] = 0 THEN << >>
                 ELSE readDirectory(blocks, d[1], d[2], n - 1))

\* The file list of a filesystem: the directory is followed from the link
\* in the allocation map
fileList(blocks) ==
    LET bam == blocks[blockNr(DirTrack, 0)]
    IN  readDirectory(blocks, bam[1], bam[2], Len(blocks))

\* The files at hand, each with a name, a load address and data bytes that
\* fill one block or two, and the filesystems within the capacity of the
\* directory
VolumeFiles ==
    [ name : { 65 }, addr : { 2049 },
      bytes : { << 7 >>, << 2, 3, 4, 255 >> } ]
    \cup [ name : { 66 }, addr : { 49152 },
           bytes : { << 7 >>, << 2, 3, 4, 255 >> } ]

Volumes == UNION { [ 1 .. n -> VolumeFiles ] : n \in 0 .. MaxFiles }

(***************************************************************************)
(* Disk::encode and Disk::decodeDisk                                       *)
(***************************************************************************)

\* The 1-bits of a sync run, and the gap bytes behind a header block and
\* behind the data block of a sector with an even number
SyncBits == 10

HeaderGapBytes == 1

TailGapBytes == 1

\* What a sector is made of: a sync run of so many 1-bits, bytes that
\* are written in GCR, and a gap of so many bytes
SyncRun(count) == [ op |-> "sync", bytes |-> << >>, count |-> count ]

GcrBlock(bytes) == [ op |-> "gcr", bytes |-> bytes, count |-> Len(bytes) ]

Gap(count) == [ op |-> "gap", bytes |-> << >>, count |-> count ]

\* The bits that a part of a sector takes
bitsOfPart(part) ==
    IF part.op = "sync" THEN part.count
    ELSE IF part.op = "gcr" THEN 10 * part.count
    ELSE 8 * part.count

RECURSIVE bitsOfParts(_)
bitsOfParts(parts) ==
    IF parts = << >> THEN 0
    ELSE bitsOfPart(Head(parts)) + bitsOfParts(Tail(parts))

\* The bits that a sector takes on a track whose tail gap is gap bytes long:
\* two sync runs, the header block of four bytes and the data block with
\* its checksum in GCR, and the two gaps; a sector with an odd number has
\* the longer tail
tailGapOf(s, gap) == IF s % 2 = 0 THEN gap ELSE gap + 1

bitsOfSector(s, gap) ==
    bitsOfPart(SyncRun(SyncBits)) + bitsOfPart(GcrBlock(Pad(<< >>, 4)))
    + bitsOfPart(Gap(HeaderGapBytes)) + bitsOfPart(SyncRun(SyncBits))
    + bitsOfPart(GcrBlock(Pad(<< >>, BlockBytes + 1)))
    + bitsOfPart(Gap(tailGapOf(s, gap)))

RECURSIVE bitsOfSectors(_, _)
bitsOfSectors(n, gap) ==
    IF n = 0 THEN 0
    ELSE bitsOfSectors(n - 1, gap) + bitsOfSector(n - 1, gap)

\* Disk::trackDefaults, the length of a track in bits: its sectors and a
\* rest that no sector takes
lengthInBits(t) ==
    bitsOfSectors(numberOfSectorsInTrack(t), TailGapBytes) + 3

\* Disk::clearDisk with the default lengths
ClearedVolumeImage ==
    [ data |->
          [ ht \in ImageHalftracks |->
              [ i \in 1 .. ((lengthInBits((ht + 1) \div 2) + 7) \div 8) |->
                  0 ] ],
      length |->
          [ ht \in ImageHalftracks |-> lengthInBits((ht + 1) \div 2) ] ]

\* A track that has bits to write to
hasBits(img, t) == img.length[2 * t - 1] > 0

\* The n low bits of a value written to a track, the highest first; a
\* track without bits takes none
RECURSIVE writeBits(_, _, _, _, _)
writeBits(img, t, at, value, n) ==
    IF n = 0 \/ ~hasBits(img, t)
    THEN img
    ELSE writeBits(
             writeBitToHalftrack(img, 2 * t - 1, at,
                                 (value \div Pow2(n - 1)) % 2 = 1),
             t, at + 1, value, n - 1)

\* Disk::encodeGcr(value, t, offset): the codeword of the high nibble, then
\* the codeword of the low nibble
encodeGcr(img, value, t, at) ==
    writeBits(writeBits(img, t, at, bin2gcr(value \div 16), 5),
              t, at + 5, bin2gcr(value % 16), 5)

\* Disk::encodeGcr(values, length, t, offset); a track without bits takes
\* none
RECURSIVE encodeGcrBytes(_, _, _, _)
encodeGcrBytes(img, values, t, at) ==
    IF values = << >> \/ ~hasBits(img, t)
    THEN img
    ELSE encodeGcrBytes(encodeGcr(img, Head(values), t, at),
                        Tail(values), t, at + 10)

\* The disk ID of a filesystem
diskId(blocks) == blocks[blockNr(DirTrack, 0)][3]

\* The parts of a sector written one behind the other; a track without
\* bits takes none
RECURSIVE writeParts(_, _, _, _)
writeParts(img, parts, t, at) ==
    IF parts = << >> \/ ~hasBits(img, t)
    THEN img
    ELSE LET part == Head(parts)
         IN  writeParts(
                 IF part.op = "sync"
                 THEN writeBitToTrackCount(img, t, at, TRUE, part.count)
                 ELSE IF part.op = "gcr"
                 THEN encodeGcrBytes(img, part.bytes, t, at)
                 ELSE writeGapToTrack(img, t, at, part.count),
                 Tail(parts), t, at + bitsOfPart(part))

\* The parts of a sector: the sync run, the header block with the track,
\* the sector, the disk ID and the checksum, the header gap, the sync run,
\* the data block with its checksum, and the tail gap
partsOfSector(blocks, t, sector, gap) ==
    LET header == << t, sector, diskId(blocks) >>
        data == blocks[blockNr(t, sector)]
    IN  << SyncRun(SyncBits),
           GcrBlock(header \o << checksum(header) >>),
           Gap(HeaderGapBytes),
           SyncRun(SyncBits),
           GcrBlock(data \o << checksum(data) >>),
           Gap(gap) >>

\* Disk::encodeSector: the disk with the sector written from start on, and
\* the number of bits written
encodeSector(img, blocks, t, sector, start, gap) ==
    LET parts == partsOfSector(blocks, t, sector, gap)
    IN  [ img |-> writeParts(img, parts, t, start),
          bits |-> bitsOfParts(parts) ]

\* The loop of Disk::encodeTrack from a sector on; a head position below
\* zero and a track without bits take no sector
RECURSIVE encodeSectors(_, _, _, _, _, _)
encodeSectors(img, blocks, t, sector, gap, start) ==
    IF sector >= numberOfSectorsInTrack(t) \/ start < 0 \/ ~hasBits(img, t)
    THEN img
    ELSE LET encoded == encodeSector(img, blocks, t, sector, start,
                                     tailGapOf(sector, gap))
         IN  encodeSectors(encoded.img, blocks, t, sector + 1, gap,
                           start + encoded.bits)

\* Disk::encodeTrack: the sectors of the track in ascending order
encodeTrack(img, blocks, t, gap, start) ==
    encodeSectors(img, blocks, t, 0, gap, start)

\* Disk::encode(fs, alignTracks): the disk is cleared and every track is
\* encoded, from its beginning if the tracks are aligned
encode(blocks, alignTracks, start) ==
    encodeTrack(
        encodeTrack(ClearedVolumeImage, blocks, DirTrack, TailGapBytes,
                    IF alignTracks THEN 0 ELSE start[DirTrack]),
        blocks, DataTrack, TailGapBytes,
        IF alignTracks THEN 0 ELSE start[DataTrack])

\* The bits of a track, one per element
bitsOfTrack(img, t) ==
    [ pos \in 0 .. (img.length[2 * t - 1] - 1) |->
        readBitFromHalftrack(img, 2 * t - 1, pos) ]

\* The n bits of a track from a position on
bitsAt(bits, len, pos, n) == [ i \in 1 .. n |-> bits[(pos + i - 1) % len] ]

\* Disk::decodeGcrNibble: the nibble of five bits, 0xFF if they are no
\* codeword
decodeGcrNibble(gcrBits) ==
    gcr2bin(16 * gcrBits[1] + 8 * gcrBits[2] + 4 * gcrBits[3]
            + 2 * gcrBits[4] + gcrBits[5])

\* Disk::decodeGcr: the byte of ten bits that are two codewords
decodeGcr(gcrBits) ==
    (16 * decodeGcrNibble(SubSeq(gcrBits, 1, 5))
     + decodeGcrNibble(SubSeq(gcrBits, 6, 10))) % 256

\* The n bytes decoded from a position on, and whether all their bits are
\* codewords
decodeBytes(bits, len, pos, n) ==
    [ i \in 1 .. n |-> decodeGcr(bitsAt(bits, len, pos + 10 * (i - 1), 10)) ]

codewordsAt(bits, len, pos, n) ==
    \A i \in 0 .. (2 * n - 1) :
        decodeGcrNibble(bitsAt(bits, len, pos + 5 * i, 5)) # 255

\* The scan for sync: the positions right behind a run of ten 1-bits or
\* more
syncEnds(bits, len) ==
    { pos \in 0 .. (len - 1) :
        /\ bits[pos] = 0
        /\ \A k \in 1 .. SyncBits : bits[(pos + len - k) % len] = 1 }

\* A header block of a sector with a right checksum starts at the position
isHeaderOf(bits, len, pos, t, sector) ==
    /\ codewordsAt(bits, len, pos, 4)
    /\ LET header == decodeBytes(bits, len, pos, 4)
       IN  /\ header[1] = t
           /\ header[2] = sector
           /\ header[4] = checksum(SubSeq(header, 1, 3))

\* The least element of a set of naturals that is not empty
Least(S) == CHOOSE x \in S : \A y \in S : x <= y

\* A sector that could not be decoded
BadSector == [ data |-> Pad(<< >>, BlockBytes), error |-> TRUE ]

\* Disk::decodeSector: the data block behind the next sync run after the
\* header block at the offset, with an error if there is none, if it is
\* not made of codewords or if its checksum is wrong
decodeSector(bits, len, at) ==
    LET behind == at + 10 * 4
        syncs == syncEnds(bits, len)
        ahead == { d \in 0 .. (len - 1) : (behind + d) % len \in syncs }
    IN  IF ahead = { }
        THEN BadSector
        ELSE LET pos == (behind + Least(ahead)) % len
                 block == decodeBytes(bits, len, pos, BlockBytes + 1)
             IN  IF /\ codewordsAt(bits, len, pos, BlockBytes + 1)
                    /\ block[BlockBytes + 1] =
                           checksum(SubSeq(block, 1, BlockBytes))
                 THEN [ data |-> SubSeq(block, 1, BlockBytes),
                        error |-> FALSE ]
                 ELSE BadSector

\* Disk::decodeTrack: the sectors of the track, each decoded where the scan
\* finds its header
decodeTrack(img, t) ==
    LET len == img.length[2 * t - 1]
        bits == bitsOfTrack(img, t)
        syncs == syncEnds(bits, len)
    IN  [ i \in 1 .. numberOfSectorsInTrack(t) |->
            LET headers == { pos \in syncs :
                               isHeaderOf(bits, len, pos, t, i - 1) }
            IN  IF headers = { }
                THEN BadSector
                ELSE decodeSector(bits, len, Least(headers)) ]

\* Disk::decodeDisk: the blocks of the disk, track by track, and the number
\* of sectors with an error
decodeDisk(img) ==
    LET sectors == decodeTrack(img, DirTrack) \o decodeTrack(img, DataTrack)
    IN  [ blocks |-> [ i \in 1 .. Len(sectors) |-> sectors[i].data ],
          errors |-> Cardinality({ i \in 1 .. Len(sectors) :
                                     sectors[i].error }) ]

\* Where the tracks of a disk start if they are not aligned
StartPositions == { 5, 101 }

\* What the encoding and the decoding of a disk leave alone
volumeFrame ==
    /\ mechanicsAtRest
    /\ UNCHANGED << access, configVars, suspendCounter, tape, t64,
                    exported, monitor, split >>

\* A call of Disk::encode with the filesystem at hand
encodeCall ==
    \E alignTracks \in BOOLEAN,
       start \in [ { DirTrack, DataTrack } -> StartPositions ] :
        /\ volume.stage = "fs"
        /\ image' = encode(volume.blocks, alignTracks, start)
        /\ volume' = [ volume EXCEPT !.stage = "disk",
                                     !.alignTracks = alignTracks,
                                     !.start = IF alignTracks THEN << >>
                                               ELSE start ]
        /\ volumeFrame

\* A call of Disk::decodeDisk with the disk that was encoded, and the file
\* list of the filesystem made of its blocks
decodeDiskCall ==
    /\ volume.stage = "disk"
    /\ LET stream == decodeDisk(image)
       IN  volume' = [ volume EXCEPT !.stage = "read",
                                     !.decoded = fileList(stream.blocks),
                                     !.errors = stream.errors ]
    /\ UNCHANGED image
    /\ volumeFrame

(***************************************************************************)
(* Specifications                                                          *)
(***************************************************************************)

\* Disk changes, interleaved with time slices in which the firmware may
\* start the motor and write
Next ==
    \/ \E otherDisk \in Disks : insertDisk(otherDisk)
    \/ ejectDisk
    \/ vsyncHandler
    \/ \E duration \in Durations : execute(duration, MaxCycles)
    \/ executeClock(FormatFirmware)
    \/ executeCarry
    \/ executeReturn

Spec == Init /\ [][Next]_vars

\* Time slices with an arbitrary firmware, no disk change
NextExec ==
    \/ \E duration \in Durations : execute(duration, MaxCycles)
    \/ executeClock(AnyFirmware)
    \/ executeCarry
    \/ executeReturn

SpecExec == Init /\ [][NextExec]_vars

\* The loop of execute is not abandoned half way
FairExec ==
    SpecExec /\ WF_vars(executeClock(AnyFirmware) \/ executeCarry
                        \/ executeReturn)

\* What the firmware writes in the time slices that are compared
SliceFirmware ==
    [ portB |-> { << 3, TRUE >>, << 1, FALSE >> },
      pcr |-> { << TRUE, TRUE >> },
      pa |-> { } ]

\* Time slices up to any state, then a time slice in two parts,
\* then the same time slice from the same state in one part
NextSplit ==
    \/ \E duration \in Durations :
           split.phase = "off" /\ execute(duration, MaxSplitCycles)
    \/ takeSnapshot
    \/ \E duration \in Durations :
           /\ split.phase = "first"
           /\ Len(split.calls) < 2
           /\ execute(duration, MaxCycles + MaxSplitCycles + 6)
    \/ putBack
    \/ /\ split.phase = "replay"
       /\ Len(split.calls) = 2
       /\ execute(split.calls[1] + split.calls[2],
                  MaxCycles + MaxSplitCycles + 6)
    \/ executeClock(SliceFirmware) /\ sameCycleSameWrite
    \/ executeCarry
    \/ executeReturn

SpecSplit == Init /\ [][NextSplit]_vars

\* Time slices in which the firmware formats, no disk change
NextFormat ==
    \/ \E duration \in Durations : execute(duration, MaxFormatCycles)
    \/ executeClock(FormatFirmware)
    \/ executeCarry
    \/ executeReturn

SpecFormat == Init /\ [][NextFormat]_vars

\* A firmware that reads a track: motor on, read mode, byte ready enabled
ReadFirmware ==
    [ portB |-> { << 3, TRUE >> },
      pcr |-> { << TRUE, TRUE >> },
      pa |-> { 0 } ]

\* The surfaces the drive can hold, each with the insertion status it has
\* when no disk change is under way
Surfaces ==
    { << DISK_FULLY_EJECTED, ClearedDisk >> }
    \cup { << DISK_FULLY_INSERTED, DiskContent(d) >> : d \in Disks }

\* A disk has been inserted after the reset
InitLoaded ==
    \E d \in Disks :
        InitWith(DISK_FULLY_INSERTED, DiskContent(d), ResetHalftrack, 0, 0)

\* Time slices in which the firmware reads the inserted disk
NextRead ==
    \/ \E duration \in Durations : execute(duration, MaxReadCycles)
    \/ executeClock(ReadFirmware)
    \/ executeCarry
    \/ executeReturn

SpecRead == InitLoaded /\ [][NextRead]_vars

\* After the reset the drive holds any of the surfaces
InitSurface ==
    \E s \in Surfaces : InitWith(s[1], s[2], ResetHalftrack, 0, 0)

\* Time slices in which the firmware reads the surface
SpecSurface == InitSurface /\ [][NextRead]_vars

\* The head has been stepped and the disk has rotated: the head is at a
\* valid position of any halftrack
InitHead ==
    \E s \in Surfaces, ht \in Halftracks :
        \E pos \in 0 .. ((IF s[2].length = "native"
                          THEN NativeLength(ht)
                          ELSE TrackBits) - 1) :
            InitWith(s[1], s[2], ht, pos, 0)

\* Head steps
NextHead ==
    \/ moveHeadUp
    \/ moveHeadDown

SpecHead == InitHead /\ [][NextHead]_vars

\* The disk has rotated with the motor on and no disk inserted
InitSpun ==
    \E pos \in HeadPositions :
        InitWith(DISK_FULLY_EJECTED, ClearedDisk, ResetHalftrack, pos, 0)

\* Head steps, interleaved with disk changes
NextSwapHead ==
    \/ moveHeadUp
    \/ moveHeadDown
    \/ \E otherDisk \in Disks : insertDisk(otherDisk)
    \/ ejectDisk
    \/ vsyncHandler

SpecSwapHead == InitSpun /\ [][NextSwapHead]_vars

\* Any pattern of five bits is at hand
InitCodec ==
    \E value \in 0 .. 31 :
        InitWith(DISK_FULLY_EJECTED, ClearedDisk, ResetHalftrack, 0, value)

\* Calls of the GCR functions
NextCodec ==
    \/ bin2gcrCall
    \/ gcr2binCall
    \/ isGcrCall

SpecCodec == InitCodec /\ [][NextCodec]_vars

\* Sequences of data nibbles are encoded
NextNibbles == encodeNibbleCall

SpecNibbles == Init /\ [][NextNibbles]_vars

\* Disks outside the drive: zeroed or filled, of default lengths or with
\* some halftracks of native length
Images ==
    { [ data |-> [ ht \in ImageHalftracks |->
                      [ i \in 1 .. ImageCapacity |-> fill ] ],
        length |-> [ ht \in ImageHalftracks |->
                        IF ht \in long THEN ImageNativeBits
                                       ELSE ImageBits ] ] :
      fill \in { 0, 255 },
      long \in { {}, { 1 }, ImageHalftracks \ { 1 } } }

\* The drive at rest and any such disk outside it
InitDisk ==
    /\ driveAtReset(DISK_FULLY_EJECTED, ClearedDisk, ResetHalftrack, 0, 0)
    /\ image \in Images
    /\ access = << >>
    /\ configAtStart
    /\ suspendCounter = 0
    /\ tape = NoTape
    /\ t64 = NoArchive
    /\ exported = NothingExported
    /\ volume = NoVolume
    /\ monitor = MonitorAtStart
    /\ split = NoSplit

\* Calls of the bit functions of the disk
NextDisk ==
    \/ readBitFromHalftrackCall
    \/ writeBitToHalftrackCall
    \/ writeBitToTrackCall
    \/ writeBitToHalftrackCountCall
    \/ writeBitToTrackCountCall
    \/ writeByteToHalftrackCall
    \/ writeGapToHalftrackCall

SpecDisk == InitDisk /\ [][NextDisk]_vars

\* The drive in any configuration, no disk in it
InitConfig ==
    /\ driveAtReset(DISK_FULLY_EJECTED, ClearedDisk, ResetHalftrack, 0, 0)
    /\ imageAtStart
    /\ config \in [ connected : BOOLEAN, switchedOn : BOOLEAN ]
    /\ active = (config.connected /\ config.switchedOn)
    /\ configCall = NoConfigCall
    /\ suspendCounter = 0
    /\ tape = NoTape
    /\ t64 = NoArchive
    /\ exported = NothingExported
    /\ volume = NoVolume
    /\ monitor = MonitorAtStart
    /\ split = NoSplit

\* Disk changes and changes of the configuration, under vsync ticks
NextConfig ==
    \/ \E d \in Disks : insertDisk(d)
    \/ ejectDisk
    \/ vsyncHandler
    \/ \E option \in { OPT_DRIVE_CONNECT, OPT_DRIVE_POWER_SWITCH },
          id \in { DRIVE8, DRIVE9 }, value \in ConfigValues,
          hasRom \in BOOLEAN :
           setConfigItem(option, id, value, hasRom)

SpecConfig == InitConfig /\ [][NextConfig]_vars

\* Changes of the configuration, and head steps between them
NextSwitch ==
    \/ \E option \in { OPT_DRIVE_CONNECT, OPT_DRIVE_POWER_SWITCH },
          id \in { DRIVE8, DRIVE9 }, value \in ConfigValues,
          hasRom \in BOOLEAN :
           setConfigItem(option, id, value, hasRom)
    \/ moveHeadUp
    \/ moveHeadDown

SpecSwitch == InitConfig /\ [][NextSwitch]_vars

\* Disk changes under vsync ticks that keep coming
NextSwap ==
    \/ \E otherDisk \in Disks : insertDisk(otherDisk)
    \/ ejectDisk
    \/ vsyncHandler

SpecSwap == Init /\ [][NextSwap]_vars

FairSwap == SpecSwap /\ WF_vars(vsyncHandler)

\* Tapes are inserted and ejected
NextTape ==
    \/ \E a \in TAPFiles : insertTape(a)
    \/ ejectTape

SpecTape == Init /\ [][NextTape]_vars

\* A tape is inserted, forwarded, played and stopped
NextPlay ==
    \/ \E a \in PlayTapes : insertTape(a)
    \/ pressPlay
    \/ pressStopCall
    \/ \E value \in BOOLEAN : setMotor(value)
    \/ \E value \in HeadCycles : setHeadInCycles(value)
    \/ execute_

SpecPlay == Init /\ [][NextPlay]_vars

\* Monitor options are set
NextMonitor ==
    \E option \in MonitorOptions, value \in MonitorValues :
        setOption(option, value)

SpecMonitor == Init /\ [][NextMonitor]_vars

\* Filesystems are made into archives, and the archives are read
NextMake ==
    \/ makeWithFileSystemCall
    \/ readByteCall

SpecMake == Init /\ [][NextMake]_vars

\* An archive has been read into memory
InitT64 ==
    /\ driveAtReset(DISK_FULLY_EJECTED, ClearedDisk, ResetHalftrack, 0, 0)
    /\ imageAtStart
    /\ configAtStart
    /\ suspendCounter = 0
    /\ tape = NoTape
    /\ t64 \in ReadableArchives
    /\ exported = NothingExported
    /\ volume = NoVolume
    /\ monitor = MonitorAtStart
    /\ split = NoSplit

NextT64 == repairCall

SpecT64 == InitT64 /\ [][NextT64]_vars

\* A filesystem with files in it is encoded to a disk and decoded
InitVolume ==
    /\ driveAtReset(DISK_FULLY_EJECTED, ClearedDisk, ResetHalftrack, 0, 0)
    /\ imageAtStart
    /\ configAtStart
    /\ suspendCounter = 0
    /\ tape = NoTape
    /\ t64 = NoArchive
    /\ exported = NothingExported
    /\ monitor = MonitorAtStart
    /\ split = NoSplit
    /\ \E files \in Volumes :
           volume = [ NoVolume EXCEPT !.files = files,
                                     !.blocks = makeWithFiles(files),
                                     !.stage = "fs" ]

NextVolume ==
    \/ encodeCall
    \/ decodeDiskCall

SpecVolume == InitVolume /\ [][NextVolume]_vars

\* Filesystems are exported to files of any type
NextExport == \E fs \in FileSystems, type \in FileTypes : export(fs, type)

SpecExport == Init /\ [][NextExport]_vars

(***************************************************************************)
(* Properties of the disk change procedure                                 *)
(***************************************************************************)

Blocking == { DISK_PARTIALLY_INSERTED, DISK_PARTIALLY_EJECTED }

SwapCycle ==
    { << DISK_FULLY_EJECTED, DISK_PARTIALLY_INSERTED >>,
      << DISK_PARTIALLY_INSERTED, DISK_FULLY_INSERTED >>,
      << DISK_FULLY_INSERTED, DISK_PARTIALLY_EJECTED >>,
      << DISK_PARTIALLY_EJECTED, DISK_FULLY_EJECTED >> }

\* C1: the insertion status changes only along the cycle FULLY_EJECTED ->
\* PARTIALLY_INSERTED -> FULLY_INSERTED -> PARTIALLY_EJECTED ->
\* FULLY_EJECTED, and only in a vsyncHandler tick whose decrement brings
\* diskChangeCounter to zero; insertDisk, ejectDisk, the steps of execute and
\* the other ticks leave it unchanged.
C1_StatusCycle ==
    [][ insertionStatus' # insertionStatus =>
          /\ << insertionStatus, insertionStatus' >> \in SwapCycle
          /\ vsyncHandler
          /\ diskChangeCounter - 1 = 0 ]_vars

\* A whole cycle has been walked, with time slices executed on the way
C1_Witness ==
    /\ insertionStatus = DISK_FULLY_EJECTED
    /\ msgs = << MSG_DISK_EJECT >>
    /\ elapsedTime > 0

\* C2: from FULLY_EJECTED with no staged disk, insertDisk(D) followed by
\* 3 * 17 = 51 vsync ticks and nothing else ends in FULLY_INSERTED with D's
\* content on the live surface and the staged reference cleared.
C2_InsertCompletes ==
    ( /\ lastCall.op = "insertDisk"
      /\ Began(lastCall)
      /\ ticksSince = 3 * DebounceDelay )
    => /\ insertionStatus = DISK_FULLY_INSERTED
       /\ disk = DiskContent(lastCall.arg)
       /\ diskToInsert = nullptr

C2_Witness ==
    /\ lastCall.op = "insertDisk"
    /\ Began(lastCall)
    /\ ticksSince = 3 * DebounceDelay

\* C3: from FULLY_INSERTED with no staged disk, ejectDisk followed by
\* 2 * 17 = 34 vsync ticks and nothing else ends in FULLY_EJECTED with the
\* live surface cleared, after exactly one disk-ejected notification.
C3_EjectCompletes ==
    ( /\ lastCall.op = "ejectDisk"
      /\ Began(lastCall)
      /\ ticksSince = 2 * DebounceDelay )
    => /\ insertionStatus = DISK_FULLY_EJECTED
       /\ disk = ClearedDisk
       /\ ejectMsgsSince = 1

C3_Witness ==
    /\ lastCall.op = "ejectDisk"
    /\ Began(lastCall)
    /\ ticksSince = 2 * DebounceDelay

\* C4: while a disk B is staged, insertDisk(A) is ignored: the staged
\* reference stays B and the debounce counter keeps its value, and the
\* staged reference is given up only in the tick that reaches FULLY_INSERTED,
\* which makes B's content the live one.
C4_SecondInsertIgnored ==
    [][ diskToInsert # nullptr =>
          /\ (\E A \in Disks : insertDisk(A)) =>
                UNCHANGED << diskToInsert, diskChangeCounter >>
          /\ diskToInsert' # diskToInsert =>
                /\ diskToInsert' = nullptr
                /\ insertionStatus' = DISK_FULLY_INSERTED
                /\ disk' = DiskContent(diskToInsert) ]_vars

\* B went live although insertDisk(A) was called while B was staged
C4_Witness ==
    /\ lastCall.op = "insertDisk"
    /\ lastCall.arg = "A"
    /\ lastCall.staged = "B"
    /\ insertionStatus = DISK_FULLY_INSERTED
    /\ disk = DiskContent("B")

\* An insertion or an ejection is in progress
SwapInFlight ==
    \/ diskToInsert # nullptr
    \/ insertionStatus \in Blocking
    \/ diskChangeCounter > 0

\* C5: whenever an insertion or an ejection is in progress (a disk is
\* staged, or the status is PARTIALLY_INSERTED or PARTIALLY_EJECTED, or a
\* started countdown has not fired yet), insertDisk changes neither the
\* staged reference nor diskChangeCounter.
C5_InsertOnlyAtRest ==
    [][ (SwapInFlight /\ \E d \in Disks : insertDisk(d)) =>
          UNCHANGED << diskToInsert, diskChangeCounter >> ]_vars

\* C6: ejectDisk changes neither the status, the staged reference,
\* diskChangeCounter nor the surface unless the status is FULLY_INSERTED and
\* no disk is staged.
C6_EjectNoOp ==
    [][ ( /\ ejectDisk
          /\ ~ ( /\ insertionStatus = DISK_FULLY_INSERTED
                 /\ diskToInsert = nullptr ) ) =>
          UNCHANGED << insertionStatus, diskToInsert, diskChangeCounter,
                       disk >> ]_vars

\* ejectDisk was called in the middle of an insertion, which then completed
C6_Witness ==
    /\ lastCall.op = "ejectDisk"
    /\ lastCall.status = DISK_PARTIALLY_INSERTED
    /\ insertionStatus = DISK_FULLY_INSERTED

\* The surface holds no data
SurfaceIsEmpty == disk.data = ClearedDisk.data

\* C7: the surface changes only in the tick PARTIALLY_INSERTED ->
\* FULLY_INSERTED, which loads the staged disk, clears the staged reference
\* and emits the disk-inserted notification, and in the tick FULLY_INSERTED
\* -> PARTIALLY_EJECTED, which clears it; insertDisk and the other ticks
\* leave it unchanged. Consequently the surface is empty in every reachable
\* state whose status is not FULLY_INSERTED.
C7_SurfaceOnlyWhenInserted ==
    /\ [][ ( /\ (vsyncHandler \/ \E d \in Disks : insertDisk(d))
             /\ disk' # disk ) =>
             \/ /\ insertionStatus = DISK_PARTIALLY_INSERTED
                /\ insertionStatus' = DISK_FULLY_INSERTED
                /\ disk' = DiskContent(diskToInsert)
                /\ diskToInsert' = nullptr
                /\ msgs' = << MSG_DISK_INSERT >>
             \/ /\ insertionStatus = DISK_FULLY_INSERTED
                /\ insertionStatus' = DISK_PARTIALLY_EJECTED
                /\ disk' = ClearedDisk ]_vars
    /\ [] (insertionStatus # DISK_FULLY_INSERTED => SurfaceIsEmpty)

\* C8: a status PARTIALLY_INSERTED or PARTIALLY_EJECTED is left only by the
\* seventeenth tick after the tick that entered it, whatever calls are made
\* in between.
C8_FullDebounce ==
    [][ ( /\ insertionStatus \in Blocking
          /\ insertionStatus' # insertionStatus ) =>
          ticksInStatus + 1 = DebounceDelay ]_vars

(***************************************************************************)
(* Properties of Drive::execute                                            *)
(***************************************************************************)

\* C9: execute terminates, and when it has returned both nextClock and
\* nextCarry are at or beyond elapsedTime, also when the firmware changes the
\* speed zone in the middle of the loop.
C9_ExecuteCatchesUp ==
    /\ [] (pc = "idle" =>
              nextClock >= elapsedTime /\ nextCarry >= elapsedTime)
    /\ (pc = "loop") ~> (pc = "idle")

\* execute has returned from a loop in which the speed zone was changed
C9_Witness ==
    /\ pc = "idle"
    /\ elapsedTime > 0
    /\ zone # 0
    /\ nextCarry % 625 = 0 /\ nextCarry % 10000 # 0

\* The registers of the read/write logic
logicVars ==
    << offset, readShiftreg, writeShiftreg, counterUF4, carryCounter,
       byteReadyCounter >>

\* C10: in the loop of execute the event with the smaller deadline fires
\* first, a tie going to the CPU; a carry tick adds the carry period of the
\* current zone to nextCarry whether or not the disk spins, and runs the
\* read/write logic exactly if the disk spins; while it does not spin, the
\* head offset, the shift registers, counterUF4 and byteReadyCounter keep
\* their values.
C10_NearerDeadlineFirst ==
    [][ /\ nextClock' # nextClock =>
              /\ nextClock <= nextCarry
              /\ nextClock' = nextClock + ClockPeriod
              /\ UNCHANGED << nextCarry, logicVars >>
        /\ nextCarry' # nextCarry =>
              /\ nextCarry < nextClock
              /\ nextCarry' =
                    nextCarry + delayBetweenTwoCarryPulses[zone + 1]
              /\ UNCHANGED nextClock
              /\ spinning => carryCounter' = (carryCounter + 1) % 4
              /\ ~ spinning => UNCHANGED logicVars
        /\ pc = "loop" /\ pc' = "loop" =>
              nextClock' # nextClock \/ nextCarry' # nextCarry ]_vars

\* Two carry ticks have fired, one with the motor on and one with it off
C10_Witness ==
    /\ nextCarry > ClockPeriod
    /\ carryCounter = 1
    /\ ~ spinning

(***************************************************************************)
(* Properties of the byte ready line and of the read/write logic           *)
(***************************************************************************)

\* C11: over the CPU ticks and the bit-cell steps, VIA2's CA1 input is
\* notified exactly in the steps that change the stored byte ready value,
\* once and with the new value, and in no step that leaves it unchanged;
\* consecutive notifications carry alternating values.
C11_NotifiedOncePerChange ==
    [][ /\ byteReady' # byteReady => ca1' = << byteReady' >>
        /\ byteReady' = byteReady => ca1' = << >>
        /\ ca1' # << >> =>
              /\ ca1' # lastCA1
              /\ lastCA1' = ca1' ]_vars

\* The line has been raised by a bit-cell step after it had gone low
C11_Witness ==
    /\ ca1 = << TRUE >>
    /\ counterUF4 % 4 = 2
    /\ nextCarry > 0

\* C12: once the first CPU tick has completed, the stored byte ready value
\* is NOT(CA2 AND NOT QB AND byteReadyCounter = 7) after every CPU tick and
\* every bit-cell step, QB being bit 1 of counterUF4; so it is high after
\* every bit-cell step of phase 2 or 3.
C12_ByteReadyIsCombinational ==
    nextClock > 0 =>
        /\ byteReady = ~ ( /\ via2.ca2
                           /\ (counterUF4 \div 2) % 2 = 0
                           /\ byteReadyCounter = 7 )
        /\ counterUF4 % 4 \in { 2, 3 } => byteReady

\* The line is low: a byte is ready
C12_Witness ==
    /\ nextClock > 0
    /\ ~ byteReady
    /\ byteReadyCounter = 7

\* C13: every bit-cell step recomputes sync as ((readShiftreg AND 0x3FF) #
\* 0x3FF) OR writeMode, so that sync is false only in read mode with the
\* ten latest bits of the read shift register all 1; whenever sync is false
\* byteReadyCounter is 0, and byteReadyCounter stays within 0..7.
C13_SyncRecomputed ==
    /\ [][ carryCounter' # carryCounter =>
             /\ sync' = ((readShiftreg % 1024 # 1023) \/ ~ via2.cb2)
             /\ ~ sync' => via2.cb2 /\ readShiftreg = 1023 ]_vars
    /\ [] (~ sync => byteReadyCounter = 0)
    /\ [] (byteReadyCounter \in 0 .. 7)

\* A sync mark has been found: ten 1 bits were read from the disk
C13_Witness ==
    /\ ~ sync
    /\ readShiftreg = 1023
    /\ nextCarry > 0

\* The bit of the surface at a position of the halftrack under the head
surfaceBit(surface, pos) ==
    IF << halftrack, pos >> \in surface.data THEN 1 ELSE 0

\* C14: a CPU tick or bit-cell step changes the surface only if it is a
\* bit-cell step of phase 2, in write mode, with the light barrier not
\* blocked and the disk not write protected; every such step puts the top bit
\* of the write shift register under the head and sets the modified flag; no
\* CPU tick or bit-cell step changes the write protection mark, and in read
\* mode or with a protected disk the surface and the modified flag stay.
C14_WriteGate ==
    [][ pc = "loop" =>
          /\ disk'.writeProtected = disk.writeProtected
          /\ disk' # disk =>
                /\ carryCounter' # carryCounter
                /\ counterUF4' % 4 = 2
                /\ ~ via2.cb2
                /\ ~ disk.writeProtected
                /\ insertionStatus \notin Blocking
          /\ ( /\ carryCounter' # carryCounter
               /\ counterUF4' % 4 = 2
               /\ ~ via2.cb2
               /\ ~ disk.writeProtected
               /\ insertionStatus \notin Blocking ) =>
                /\ disk'.modified
                /\ surfaceBit(disk', offset') = (writeShiftreg \div 128) % 2
          /\ (via2.cb2 \/ disk.writeProtected) => disk' = disk ]_vars

\* A bit has been written to an inserted disk
C14_Witness ==
    /\ insertionStatus = DISK_FULLY_INSERTED
    /\ disk.modified
    /\ counterUF4 % 4 = 2

\* C15: the write shift register is loaded from port A of VIA2 only in a
\* bit-cell step of phase 3 that finds byteReadyCounter at 7, is shifted by
\* one bit in every step of phase 2 and is left alone otherwise; while the
\* drive stays in write mode the load takes place in the phase 3 that
\* follows the eighth shift and in no other, and the eight bits of the loaded
\* byte go to consecutive head positions, the most significant bit first.
C15_WriteShiftregLoad ==
    [][ /\ carryCounter' = carryCounter => writeShiftreg' = writeShiftreg
        /\ (carryCounter' # carryCounter /\ counterUF4' % 4 \in { 0, 1 }) =>
              writeShiftreg' = writeShiftreg
        /\ (carryCounter' # carryCounter /\ counterUF4' % 4 = 2) =>
              /\ writeShiftreg' = (2 * writeShiftreg) % 256
              /\ (loaded.writing /\ ~ via2.cb2) =>
                    /\ loaded.shifts < 8
                    /\ (writeShiftreg \div 128) % 2 =
                          (loaded.byte \div Pow2(7 - loaded.shifts)) % 2
                    /\ offset' = rotateDisk(loaded.pos)
                    /\ ~ getLightBarrier =>
                          surfaceBit(disk', offset') =
                             (loaded.byte \div Pow2(7 - loaded.shifts)) % 2
        /\ (carryCounter' # carryCounter /\ counterUF4' % 4 = 3) =>
              /\ writeShiftreg' =
                    IF byteReadyCounter' = 7 THEN via2.pa ELSE writeShiftreg
              /\ (loaded.writing /\ ~ via2.cb2) =>
                    (byteReadyCounter' = 7 <=> loaded.shifts = 8) ]_vars

\* The register has been loaded a second time, after a byte written in one go
C15_Witness ==
    /\ loaded.loads = 2
    /\ loaded.writing
    /\ loaded.byte = 167

\* C16: a bit-cell step moves the head by one bit, wrapping to 0 at the
\* length of the halftrack, exactly if it brings carryCounter to a multiple
\* of 4, and no other step moves it; such a step resets counterUF4 to 0 if
\* the drive is in read mode and the bit under the head is 1, and every
\* other bit-cell step increments counterUF4.
C16_HeadAdvance ==
    [][ /\ carryCounter' # carryCounter =>
              /\ carryCounter' = (carryCounter + 1) % 4
              /\ offset' =
                    IF carryCounter' = 0
                    THEN (offset + 1) % lengthOfHalftrack(halftrack)
                    ELSE offset
              /\ counterUF4' =
                    IF /\ carryCounter' = 0
                       /\ via2.cb2
                       /\ << halftrack, offset >> \in disk.data
                    THEN 0
                    ELSE (counterUF4 + 1) % 16
        /\ carryCounter' = carryCounter => offset' = offset ]_vars

\* A 1 bit and then a 0 bit have passed the head in read mode
C16_Witness ==
    /\ disk = DiskContent("B")
    /\ via2.cb2
    /\ carryCounter = 0
    /\ offset = 2
    /\ counterUF4 = 4

(***************************************************************************)
(* Properties of the stepper                                               *)
(***************************************************************************)

\* C17: the halftrack stays within 1..84 whatever head steps are made;
\* moveHeadUp at halftrack 84 and moveHeadDown at halftrack 1 change neither
\* the halftrack nor the bit offset.
C17_HalftrackInRange ==
    /\ [] (halftrack \in 1 .. 84)
    /\ [][ ( \/ moveHeadUp /\ halftrack = 84
             \/ moveHeadDown /\ halftrack = 1 ) =>
             UNCHANGED << halftrack, offset >> ]_vars

\* moveHeadUp has been called with the head over halftrack 84
C17_Witness ==
    /\ trail # << >>
    /\ trail[Len(trail)].op = "moveHeadUp"
    /\ trail[Len(trail)].halftrack = 84
    /\ halftrack = 84

\* C18: the head position is valid, 0 <= offset < length of the halftrack,
\* after any head steps and disk changes, also when the disk change brings
\* other halftrack lengths.
C18_ValidHeadPos == isValidHeadPos(halftrack, offset)

\* |a - b|
Distance(a, b) == IF a < b THEN b - a ELSE a - b

\* C19: moveHeadUp followed by moveHeadDown from halftrack h in 1..83, and
\* moveHeadDown followed by moveHeadUp from h in 2..84, end over halftrack h
\* with an offset that differs from the first one by at most 1; each step
\* that moves the head sets the offset to floor(offset * new length / old
\* length).
C19_SteppingReversible ==
    /\ ( /\ Len(trail) = 2
         /\ \/ /\ trail[1].op = "moveHeadUp"
               /\ trail[2].op = "moveHeadDown"
               /\ trail[1].halftrack \in 1 .. 83
            \/ /\ trail[1].op = "moveHeadDown"
               /\ trail[2].op = "moveHeadUp"
               /\ trail[1].halftrack \in 2 .. 84 )
       => /\ halftrack = trail[1].halftrack
          /\ Distance(offset, trail[1].offset) <= 1
    /\ ( /\ trail # << >>
         /\ halftrack # trail[Len(trail)].halftrack )
       => offset =
             (trail[Len(trail)].offset * lengthOfHalftrack(halftrack))
             \div lengthOfHalftrack(trail[Len(trail)].halftrack)

(***************************************************************************)
(* Properties of the GCR tables                                            *)
(***************************************************************************)

\* The 16 codewords
Codewords == { gcr[v + 1] : v \in 0 .. 15 }

\* C20: gcr2bin(bin2gcr(v)) = v for each of the 16 nibbles v; gcr2bin
\* returns 0xFF for each of the 16 patterns of five bits that are no
\* codewords; isGcr is true for the 16 codewords and for nothing else.
C20_TablesInverse ==
    /\ Cardinality(Codewords) = 16
    /\ Cardinality((0 .. 31) \ Codewords) = 16
    /\ \A i \in 1 .. Len(gcrCalls) :
          LET call == gcrCalls[i]
          IN  /\ ( /\ call.op = "gcr2bin"
                   /\ i > 1
                   /\ gcrCalls[i - 1].op = "bin2gcr" )
                 => call.ret = gcrCalls[i - 1].arg
              /\ (call.op = "gcr2bin" /\ call.arg \notin Codewords)
                 => call.ret = 255
              /\ call.op = "isGcr"
                 => (call.ret <=> call.arg \in Codewords)

\* The nibble 15 has been encoded and decoded again
C20_Witness ==
    /\ Len(gcrCalls) = 2
    /\ gcrCalls[1].op = "bin2gcr"
    /\ gcrCalls[1].arg = 15
    /\ gcrCalls[2].op = "gcr2bin"
    /\ gcrCalls[2].ret = 15

\* C29: an insertDisk that stages its disk D, in whatever status it finds
\* the drive, is followed under vsync ticks by FULLY_INSERTED with the
\* content of D on the live surface, and if the drive held a disk or was
\* ejecting one, MSG_DISK_EJECT has been sent before MSG_DISK_INSERT is
C29_AcceptedInsertCompletes ==
    /\ \A d \in Disks :
           (diskToInsert = d) ~>
               ( /\ insertionStatus = DISK_FULLY_INSERTED
                 /\ disk = DiskContent(d)
                 /\ diskToInsert = nullptr
                 /\ msgs = << MSG_DISK_INSERT >> )
    /\ [][ ( /\ msgs' = << MSG_DISK_INSERT >>
             /\ accepted.status \in { DISK_FULLY_INSERTED,
                                       DISK_PARTIALLY_EJECTED } )
           => accepted.ejects >= 1 ]_vars

\* The disk B is about to come in after an insertDisk that found the disk
\* A fully inserted
C29_Witness ==
    /\ accepted.disk = "B"
    /\ accepted.status = DISK_FULLY_INSERTED
    /\ accepted.ejects = 1
    /\ diskToInsert = "B"
    /\ insertionStatus = DISK_PARTIALLY_INSERTED
    /\ diskChangeCounter = 1

\* C30: in DISK_PARTIALLY_INSERTED a disk is staged, so that the tick to
\* DISK_FULLY_INSERTED has a disk to copy, whatever calls of insertDisk
\* and ejectDisk come between the vsync ticks
C30_StagedWhilePartiallyInserted ==
    insertionStatus = DISK_PARTIALLY_INSERTED => diskToInsert # nullptr

\* An insertDisk has been called while the disk was half way in
C30_Witness ==
    /\ insertionStatus = DISK_PARTIALLY_INSERTED
    /\ lastCall.op = "insertDisk"
    /\ lastCall.status = DISK_PARTIALLY_INSERTED
    /\ ticksInStatus > 1

(***************************************************************************)
(* Properties of the bit functions of the disk                             *)
(***************************************************************************)

\* The bit of a position of a halftrack, the leftmost bit of a byte being
\* the first
BitAt(img, ht, pos) ==
    (img.data[ht][pos \div 8 + 1] \div Pow2(7 - (pos % 8))) % 2

\* The latest call of a bit function
LatestAccess == access[Len(access)]

\* The largest number of a nonempty set of numbers
Largest(S) == CHOOSE n \in S : \A m \in S : m <= n

\* The writes, counted from 0, of a run of count writes from pos on that
\* land on the position q of a halftrack of len bits
WritesOn(pos, count, len, q) ==
    { j \in 0 .. count - 1 : (pos + j) % len = q }

\* A run of count bit writes from pos on in the halftrack ht has stored
\* bit(j) by its write j, at the position modulo the length, and nothing
\* else has changed
RunStored(before, after, ht, pos, count, bit(_)) ==
    /\ after.length = before.length
    /\ \A h \in ImageHalftracks, q \in 0 .. 8 * ImageCapacity - 1 :
           LET writes == IF h = ht
                         THEN WritesOn(pos, count, before.length[ht], q)
                         ELSE {}
           IN  BitAt(after, h, q) =
                   IF writes = {} THEN BitAt(before, h, q)
                                  ELSE bit(Largest(writes))

\* C21: every bit function without an underscore takes any position from 0
\* on and acts on the position modulo the length of the halftrack, so that
\* no call of it fails the assertion on the head position
C21_PositionWrapped ==
    access # << >> =>
        LET call == LatestAccess
            len == call.before.length[call.ht]
        IN  /\ ~ call.tripped
            /\ call.op = "readBitFromHalftrack" =>
                   call.ret = BitAt(call.before, call.ht, call.pos % len)
            /\ call.op \in { "writeBitToHalftrack", "writeBitToTrack",
                              "writeBitToHalftrackCount",
                              "writeBitToTrackCount" } =>
                   RunStored(call.before, image, call.ht, call.pos,
                             call.count, LAMBDA j : call.value)

\* C22: a bit written is the bit read back, in the byte pos / 8 counted
\* from the left, and no other bit changes; a byte is written from its bit
\* 7 at pos to its bit 0 at pos + 7, a gap as that many bytes 0x55 one
\* after the other, the positions taken modulo the length of the halftrack
C22_WritesLocalMsbFirst ==
    access # << >> =>
        LET call == LatestAccess
            bitOfByte(j) == (call.value \div Pow2(7 - (j % 8))) % 2
        IN  /\ call.op = "writeBitToHalftrack" =>
                   /\ readBitFromHalftrack(image, call.ht, call.pos)
                          = call.value
                   /\ RunStored(call.before, image, call.ht, call.pos, 1,
                                LAMBDA j : call.value)
            /\ call.op = "writeByteToHalftrack" =>
                   RunStored(call.before, image, call.ht, call.pos, 8,
                             bitOfByte)
            /\ call.op = "writeGapToHalftrack" =>
                   /\ call.value = 85
                   /\ RunStored(call.before, image, call.ht, call.pos,
                                8 * call.count, bitOfByte)

\* A byte with both kinds of bits has been written across the end of a
\* halftrack, and a gap of two bytes has been written
C22_Witness ==
    /\ access # << >>
    /\ LatestAccess.op = "writeByteToHalftrack"
    /\ LatestAccess.value = 167
    /\ LatestAccess.pos = ImageBits - 1
    /\ LatestAccess.before.length[LatestAccess.ht] = ImageBits
    /\ image # LatestAccess.before

(***************************************************************************)
(* Properties of the suspend and resume brackets                           *)
(***************************************************************************)

\* C23: insertDisk, ejectDisk and setConfigItem for OPT_DRIVE_CONNECT and
\* OPT_DRIVE_POWER_SWITCH call resume once for each suspend on every path,
\* so that the nesting depth is the initial one after any of them, and no
\* other step of the drive changes it
C23_DriveBracketsBalanced ==
    /\ suspendCounter = 0
    /\ [][suspendCounter' = suspendCounter]_vars

\* An insertion has been ignored because a disk was staged, with the drive
\* switched off by an earlier call of setConfigItem
C23_Witness ==
    /\ lastCall.op = "insertDisk"
    /\ lastCall.staged # nullptr
    /\ ~ config.switchedOn
    /\ ~ active
    /\ suspendCounter = 0

\* C24: Datasette::insertTape and Datasette::ejectTape call resume for each
\* suspend on every path, ejectTape without a tape included, so that the
\* emulator is not left suspended after any sequence of them
C24_TapeBracketsBalanced == suspendCounter = 0

(***************************************************************************)
(* Properties of T64File::repair                                           *)
(***************************************************************************)

\* The archive as it was read
Original == [ data |-> t64.original, size |-> t64.size ]

\* The directory slot lies in the archive with all its bytes
SlotInside(t, k) == DirectoryStart + SlotSize * (k + 1) <= t.size

\* The directory slot holds a byte that is not zero
SlotUsed(t, k) ==
    \E i \in DirectoryStart + SlotSize * k ..
              DirectoryStart + SlotSize * (k + 1) - 1 : ByteOf(t, i) # 0

\* The number of leading directory slots that lie in the archive and hold
\* a byte that is not zero
LeadingSlots(t) ==
    CHOOSE n \in 0 .. t.size :
        /\ \A k \in 0 .. n - 1 : SlotInside(t, k) /\ SlotUsed(t, k)
        /\ ~ (SlotInside(t, n) /\ SlotUsed(t, n))

\* C25: repair replaces an item count of 0 by the number of leading
\* directory slots that hold a byte other than zero, up to the first empty
\* slot or the first slot that is not wholly inside the archive, and leaves
\* any other item count as it is
C25_ItemCountRepaired ==
    t64.ret # << >> =>
        collectionCount(t64) =
            IF collectionCount(Original) = 0
            THEN LeadingSlots(Original)
            ELSE collectionCount(Original)

\* The items before item i all lie in the archive
NoneOutsideBefore(i) ==
    \A j \in 0 .. i - 1 : offsetInContainer(Original, j) < t64.size

\* C26: repair replaces an end address of 0xC3C6 by start address + (size
\* of the archive - offset in the container) modulo 2^16, taking all 32
\* bits of the offset, leaves every other end address, and returns false
\* without a patch at an item whose offset is the size of the archive or
\* more
C26_EndAddressRepaired ==
    t64.ret # << >> =>
        /\ t64.ret = << NoneOutsideBefore(collectionCount(t64)) >>
        /\ \A i \in 0 .. collectionCount(t64) - 1 :
               memEnd(t64, i) =
                   IF /\ memEnd(Original, i) = EndAddrSentinel
                      /\ NoneOutsideBefore(i + 1)
                   THEN (memStart(Original, i)
                         + (t64.size - offsetInContainer(Original, i))) % U16
                   ELSE memEnd(Original, i)

(***************************************************************************)
(* Properties of the export                                                *)
(***************************************************************************)

\* C27: the export of a filesystem with more than one file to a PRG or a
\* P00 file writes the first file alone, its load address in two bytes and
\* then its data, and succeeds; the advisory is shown exactly if there is
\* more than one file; a type that is not supported raises
\* FILE_TYPE_MISMATCH and nothing is written
C27_FirstFileExported ==
    LET fs == exported.fs
    IN  /\ exported.type \in { "PRG", "P00" } =>
               /\ exported.advisory # << >> <=> Len(fs) > 1
               /\ Len(fs) > 1 =>
                      /\ exported.error = "none"
                      /\ Len(exported.written) = 1
                      /\ exported.written[1].data =
                             << fs[1].addr % 256, fs[1].addr \div 256 >>
                             \o fs[1].bytes
        /\ exported.type \in { "D64", "T64" } => exported.advisory = << >>
        /\ exported.type = "G64" =>
               /\ exported.error = FILE_TYPE_MISMATCH
               /\ exported.written = << >>

\* Two files have been exported to a PRG file, the first of them with data
C27_Witness ==
    /\ exported.type = "PRG"
    /\ Len(exported.fs) = 2
    /\ exported.fs[1].bytes = << 2, 3 >>
    /\ exported.fs[2] # exported.fs[1]
    /\ exported.advisory # << >>
    /\ exported.written # << >>

LargestCarryPeriod ==
    LET periods == { delayBetweenTwoCarryPulses[z + 1] : z \in Zones }
    IN  CHOOSE p \in periods : \A q \in periods : q <= p

\* C32: every CPU tick and every carry tick fired inside execute has a
\* deadline strictly below elapsedTime, and whenever execute has returned
\* nextClock is below elapsedTime + 10000 and nextCarry is below elapsedTime
\* plus the largest carry period of the four zones.
C32_NeverAheadOfWatermark ==
    /\ [][ /\ nextClock' # nextClock => nextClock < elapsedTime
           /\ nextCarry' # nextCarry => nextCarry < elapsedTime ]_vars
    /\ [] (pc = "idle" =>
              /\ nextClock < elapsedTime + 10000
              /\ nextCarry < elapsedTime + LargestCarryPeriod)

\* execute has returned twice, with both deadlines past the watermark and
\* the carry deadline more than half a CPU cycle past it
C32_Witness ==
    /\ pc = "idle"
    /\ elapsedTime > 2 * ClockPeriod
    /\ nextClock > elapsedTime
    /\ nextCarry > elapsedTime + 5000
    /\ zone # 0

(***************************************************************************)
(* Properties of split time slices                                         *)
(***************************************************************************)

\* The sequence begins with the other sequence
startsWith(long, short) ==
    /\ Len(short) <= Len(long)
    /\ SubSeq(long, 1, Len(short)) = short

\* C31: from any state between two calls, execute(a) followed by execute(b)
\* performs the same sequence of CPU ticks and carry ticks in the same order
\* as a single execute(a + b), and ends in the same drive state, when the
\* CPU and the VIAs do in each cycle of the one run what they do in the same
\* cycle of the other.
C31_SplitSliceSameResult ==
    split.phase = "replay" =>
        /\ startsWith(split.first[1].ticks, split.ticks)
        /\ replayed =>
              /\ split.ticks = split.first[1].ticks
              /\ DriveState = split.first[1].state

\* After some time a slice of two unequal parts has been executed again in
\* one part; the motor was running, the speed zone was changed in it, and
\* a CPU tick followed a carry tick
C31_Witness ==
    /\ replayed
    /\ split.calls[1] # split.calls[2]
    /\ split.start[1].nextClock > 0
    /\ split.start[1].spinning
    /\ split.start[1].zone # zone
    /\ carryCounter # split.start[1].carryCounter
    /\ Len(split.ticks) >= 6
    /\ \E i \in 1 .. Len(split.ticks) - 1 :
           split.ticks[i] = "carry" /\ split.ticks[i + 1] = "clock"

(***************************************************************************)
(* Properties of the phases of the read/write logic                        *)
(***************************************************************************)

\* C33: from the reset state on, the low two bits of counterUF4 equal the
\* low two bits of carryCounter after every bit-cell step, and so the four
\* phases stay aligned with the bit cell: the head advances exactly in the
\* steps of phase 0, both shift registers are shifted exactly in the steps
\* of phase 2, and the phases follow each other in the order 0, 1, 2, 3, so
\* that between two head advances there is one shift and then one step of
\* phase 3.
C33_PhasesAligned ==
    /\ [] (counterUF4 % 4 = carryCounter % 4)
    /\ [][ carryCounter' # carryCounter =>
              /\ carryCounter' = (carryCounter + 1) % 4
              /\ counterUF4' % 4 = (counterUF4 + 1) % 4
              /\ offset' = IF counterUF4' % 4 = 0
                           THEN rotateDisk(offset)
                           ELSE offset
              /\ IF counterUF4' % 4 = 2
                 THEN /\ readShiftreg' \div 2 =
                             readShiftreg % (ReadShiftregModulus \div 2)
                      /\ writeShiftreg' =
                             (writeShiftreg * 2) % WriteShiftregModulus
                 ELSE readShiftreg' = readShiftreg
              /\ counterUF4' % 4 # 3 /\ counterUF4' % 4 # 2 =>
                     writeShiftreg' = writeShiftreg ]_vars

\* Three bits have been shifted in, and a 1 bit read in the latest bit cell
\* has cleared counterUF4
C33_Witness ==
    /\ loaded.shifts = 3
    /\ counterUF4 = 2
    /\ carryCounter = 2
    /\ readShiftreg % 2 = 1
    /\ offset > 0

\* The step is the phase-2 step of a bit cell that began with a head read
shiftsAfterHeadRead ==
    /\ carryCounter' # carryCounter
    /\ counterUF4' % 4 = 2
    /\ loaded'.cell.read
    /\ readMode

\* C34: in read mode, in every bit cell that begins with a head read, the
\* bit shifted into the read shift register in the phase-2 step is the bit
\* that was under the head, as long as no more than three 0 bits have been
\* under the head in a row; with the fourth 0 bit in a row a 1 is shifted in
\* instead. The bit shifted in is 1 exactly if bits 2 and 3 of counterUF4
\* are zero.
C34_ReadPathFidelity ==
    [][ shiftsAfterHeadRead =>
           /\ loaded'.cell.zeros <= 3 =>
                  readShiftreg' % 2 = loaded'.cell.bit
           /\ loaded'.cell.zeros = 4 => readShiftreg' % 2 = 1
           /\ readShiftreg' % 2 = 1 <=> (counterUF4' \div 4) % 4 = 0 ]_vars

\* The fourth 0 bit in a row has been under the head and a 1 has been
\* shifted in after three 0 bits
C34_Witness ==
    /\ loaded.cell.read
    /\ loaded.cell.zeros = 4
    /\ counterUF4 % 4 = 2
    /\ readShiftreg % 16 = 1
    /\ readMode

(***************************************************************************)
(* Properties of GCR encoded data                                          *)
(***************************************************************************)

\* The five bits of a codeword, the most significant first
bitsOfCodeword(codeword) ==
    [ i \in 1 .. 5 |-> (codeword \div Pow2(5 - i)) % 2 ]

\* The bits of the codewords that the calls returned, one after the other
RECURSIVE bitsOfCalls(_)
bitsOfCalls(calls) ==
    IF calls = << >>
    THEN << >>
    ELSE bitsOfCodeword(Head(calls).ret) \o bitsOfCalls(Tail(calls))

\* The bits hold n equal bits b in a row
hasRun(bits, b, n) ==
    \E i \in 1 .. (Len(bits) - n + 1) :
        \A j \in i .. (i + n - 1) : bits[j] = b

\* C35: for every sequence of data nibbles, the codewords of the gcr table
\* one after the other hold no more than two 0 bits in a row and no more
\* than eight 1 bits in a row, so they hold neither the ten 1 bits of a sync
\* mark nor the 0 bits after which the read logic shifts in a 1 of its own.
C35_GcrRunLengths ==
    LET bits == bitsOfCalls(gcrCalls)
    IN  /\ ~ hasRun(bits, 0, 3)
        /\ ~ hasRun(bits, 1, 9)
        /\ ~ hasRun(bits, 1, SyncBits)

\* The nibbles 5, 14 and 2 have been encoded: eight 1 bits in a row, and
\* two 0 bits in a row
C35_Witness ==
    /\ Len(gcrCalls) = 3
    /\ gcrCalls[1].arg = 5 /\ gcrCalls[2].arg = 14 /\ gcrCalls[3].arg = 2
    /\ hasRun(bitsOfCalls(gcrCalls), 1, 8)
    /\ hasRun(bitsOfCalls(gcrCalls), 0, 2)

(***************************************************************************)
(* Properties of Drive::setConfigItem                                      *)
(***************************************************************************)

\* The messages that tell a change of Drive::active
ActivityMsgs == { MSG_DRIVE_ACTIVE, MSG_DRIVE_INACTIVE }

\* C36: after any sequence of setConfigItem calls for OPT_DRIVE_CONNECT and
\* OPT_DRIVE_POWER_SWITCH, active is config.connected and config.switchedOn;
\* a call sends MSG_DRIVE_ACTIVE or MSG_DRIVE_INACTIVE exactly if it changes
\* active, and the one that tells the new value; a call that sets an option
\* to the value it has, that addresses another drive, or that connects the
\* drive while the drive ROM is missing returns false, sends no message,
\* leaves the configuration and active as they are and does not reset the
\* drive.
C36_ActiveFollowsConfig ==
    /\ [] (active = (config.connected /\ config.switchedOn))
    /\ [][ headSteps' = headSteps =>
              /\ (\E i \in 1 .. Len(msgs') : msgs'[i] \in ActivityMsgs)
                     <=> active' # active
              /\ active' # active =>
                     msgs'[Len(msgs')] = IF active'
                                         THEN MSG_DRIVE_ACTIVE
                                         ELSE MSG_DRIVE_INACTIVE
              /\ configCall'.asked \in
                     { "other drive", "current value", "missing ROM" } =>
                     /\ ~ configCall'.ret
                     /\ msgs' = << >>
                     /\ UNCHANGED << config, active, halftrack >> ]_vars

\* The head was stepped off the reset halftrack, and a call that set the
\* power switch to the value it had was refused and left it there, the drive
\* being connected and switched off
C36_Witness ==
    /\ configCall = [ asked |-> "current value", ret |-> FALSE ]
    /\ halftrack # ResetHalftrack
    /\ config = [ connected |-> TRUE, switchedOn |-> FALSE ]
    /\ ~ active

(***************************************************************************)
(* Properties of the head of the datasette                                 *)
(***************************************************************************)

\* C37: the assertions head < size of Datasette::pulseLength and
\* Datasette::advanceHead hold in every call that insertTape, pressPlay,
\* pressStop, setHeadInCycles and _execute make, also when pressPlay is
\* called with the head at the end of the tape, and for tapes of version 1
\* that end in a zero marker.
C37_HeadInsideTape == tape.failed = { }

(***************************************************************************)
(* Properties of the monitor options                                       *)
(***************************************************************************)

\* The latest call of setOption
lastOption == monitor.calls[Len(monitor.calls)]

\* C38: a setOption call for OPT_MON_BRIGHTNESS, OPT_MON_CONTRAST or
\* OPT_MON_SATURATION with a value outside 0...100 is rejected with
\* ERROR_OPT_INVARG and leaves the configuration as it is, a call with a
\* value of 0...100 is accepted, and after any calls of setOption brightness,
\* contrast and saturation are in 0...100.
C38_PercentOptionsInRange ==
    /\ \A f \in { "brightness", "contrast", "saturation" } :
           monitor.config[f] \in 0 .. 100
    /\ (monitor.calls # << >> /\ lastOption.option \in PercentOptions) =>
           /\ lastOption.ret = ERROR_OPT_INVARG
                 <=> lastOption.value \notin 0 .. 100
           /\ lastOption.ret = ERROR_OPT_INVARG =>
                 monitor.config = monitor.before

\* C39: after a setOption(o, v) that is accepted, getOption(o) returns v and
\* getOption of every other option returns what it returned before.
C39_OptionsIndependent ==
    (monitor.calls # << >> /\ lastOption.ret # ERROR_OPT_INVARG) =>
        \A o \in MonitorOptions :
            getOption(monitor.config, o) =
                IF o = lastOption.option
                THEN lastOption.value
                ELSE getOption(monitor.before, o)

(***************************************************************************)
(* Properties of T64File::makeWithFileSystem                               *)
(***************************************************************************)

\* The bytes of the files before file n
RECURSIVE lengthBefore(_, _)
lengthBefore(fs, n) ==
    IF n = 0 THEN 0 ELSE lengthBefore(fs, n - 1) + Len(fs[n].bytes)

\* The byte of a file at a position: its load address, then its data
byteOfFile(file, pos) ==
    IF pos = 0 THEN LO_BYTE(file.addr)
    ELSE IF pos = 1 THEN HI_BYTE(file.addr)
    ELSE file.bytes[pos - 1]

\* C40: in the archive that makeWithFileSystem builds, the tape position of
\* the directory slot of every file n is the offset at which the bytes of
\* file n were written, 64 + 32 * maxFiles plus the lengths of the files
\* before it; itemSize(n) is the size of file n in the filesystem, and
\* readByte(n, pos) returns the load address for pos 0 and 1 and the bytes
\* of file n from pos 2 on, whatever the number of files.
C40_ExportReadableBack ==
    t64.fs # << >> =>
        LET fs == t64.fs[1]
        IN  /\ \A n \in 0 .. (Len(fs) - 1) :
                   /\ offsetInContainer(t64, n) =
                          DirectoryStart + SlotSize * MinSlots
                          + lengthBefore(fs, n)
                   /\ itemSize(t64, n) = fileSize(fs, n)
            /\ \A i \in 1 .. Len(t64.ret) :
                   t64.ret[i].byte =
                       byteOfFile(fs[t64.ret[i].nr + 1], t64.ret[i].pos)

====
